---- MODULE Spec2Model ----
(***************************************************************************)
(* A model of heksher-py: the rule collation / resolution engine           *)
(* (heksher/clients/util.py, heksher/util.py, heksher/setting.py), the     *)
(* Setting object and the clients that keep it synchronised                *)
(* (heksher/clients/subclasses.py, async_client.py, thread_client.py,      *)
(* heksher/heksher_client.py).                                             *)
(*                                                                         *)
(* Python values are modelled as follows.  A context-feature value is a    *)
(* string.  A setting value is boxed, [leaf |-> n], so that a rule branch  *)
(* (a function from keys to branches) and a value can be told apart and    *)
(* compared.  The dict key None (wildcard) is the string "None"; None as   *)
(* the value of an attribute is Null.  An exception leaving a function is  *)
(* the record [raised |-> <its name>].                                     *)
(***************************************************************************)
EXTENDS Integers, Sequences, FiniteSets, TLC

(***************************************************************************)
(* State.                                                                  *)
(*  tree_*: one call of collate_rules and the resolutions of its result    *)
(*          (specification SpecTree).                                      *)
(***************************************************************************)
(*  One Setting and the threads that use it (specification SpecSetting):   *)
(*    configurable_features, default_value, server_default_value,          *)
(*    last_ruleset: the attributes of the Setting;                         *)
(*    heap: the rule branch objects, by identity (a RuleSet refers to its  *)
(*          root by identity, collate_rules fills a root in place);        *)
(*    const_context_features: the defaults of the client;                  *)
(*    declared: the declaration response that was handled, Null before;    *)
(*    get_*: a call of Setting.get (its position and locals);              *)
(*    upd_*: the update cycle of the client as far as the setting goes:    *)
(*           the query, and the reply applied to the setting               *)
(*           (_update_settings_from_query, Setting.update, collate_rules); *)
(*    modification_lock: whether the client's modification_lock is held.   *)
(***************************************************************************)
(*  One client, the placeholder it takes over from and the application     *)
(*  (specification SpecClient):                                            *)
(*    kind: "async" (AsyncHeksherClient) or "thread" (ThreadHeksherClient);*)
(*    Main: the occupant of heksher.main_client.Main;                      *)
(*    temp_undeclared: TemporaryClient.undeclared;                         *)
(*    settings: the Setting objects by name, each with its last_ruleset    *)
(*          and server_default_value given as the version of the reply     *)
(*          they came from (0: None);                                      *)
(*    undeclared, unfinished_tasks: the queue _undeclared and its count    *)
(*          of unfinished tasks;  tracked_settings,                        *)
(*    client_context_features (_context_features),                         *)
(*    update_event, manual_update, keep_going, update_error, etag,         *)
(*    last_cache_time: the attributes of the client (etag is a local of    *)
(*          the async update loop);                                        *)
(*    declaration_pc, declaring: the declaration loop and the setting it   *)
(*          has taken;  update_pc, queried, update_response, cycles: the   *)
(*          update loop, the names of its query, the response it got and   *)
(*          the number of queries sent;                                    *)
(*    app_pc, app_call, app_result, reloads: the application, the call it  *)
(*          is in, what the call returned or raised, and the reloads made; *)
(*    reload_settings: the settings that existed when the reload in        *)
(*          progress was called;                                           *)
(*    startup_backlog: the queue as it was when the declaration loop was   *)
(*          started;                                                       *)
(*    declaration_log: for each setting a declaration of which was         *)
(*          answered or failed, what the client logged of the latest one:  *)
(*          nothing ("declared"), a conflict, or a failure.                *)
(*  Two clients and the main slot (specification SpecMain), with kind,    *)
(*  Main, temp_undeclared and settings as above:                           *)
(*    clients: for each client its state (new, running, closed), its       *)
(*          queue _undeclared, the setting its declaration loop has taken, *)
(*          _tracked_settings, _context_features and                       *)
(*          _tracked_context_options;                                      *)
(*    handover: the last call of set_as_main, with the main client it      *)
(*          found and what it returned or raised;                          *)
(*    last_update: the client, the names and the version of the last       *)
(*          update cycle;                                                  *)
(*    track_call: the last call of track_contexts (specification           *)
(*          SpecTrack): its client, its keyword arguments in their order   *)
(*          and what it returned or raised;                                *)
(*    patch_call: the last call of StubClient.patch on the setting         *)
(*          (specification SpecStub): its value argument, the rule set     *)
(*          its _Patch recorded and what it returned or raised.            *)
(***************************************************************************)
VARIABLES tree_pc, tree_keys, tree_rules, tree_root, tree_ns, tree_ret,
          configurable_features, default_value, server_default_value,
          last_ruleset, heap, const_context_features, declared,
          get_pc, get_contexts, get_ruleset, get_from_rules, get_result,
          upd_pc, upd_reply, upd_rules, upd_root, upd_n, upd_count,
          modification_lock,
          kind, Main, temp_undeclared, settings,
          undeclared, unfinished_tasks, tracked_settings,
          client_context_features, update_event, manual_update, keep_going, update_error, etag,
          last_cache_time,
          declaration_pc, declaring, update_pc, queried, update_response, cycles,
          app_pc, app_call, app_result, reloads, reload_settings, startup_backlog,
          declaration_log,
          clients, handover, last_update, track_call, patch_call

treeVars == <<tree_pc, tree_keys, tree_rules, tree_root, tree_ns, tree_ret>>
settingVars == <<configurable_features, default_value, server_default_value,
                 last_ruleset, heap, const_context_features, declared>>
getVars == <<get_pc, get_contexts, get_ruleset, get_from_rules, get_result>>
updVars == <<upd_pc, upd_reply, upd_rules, upd_root, upd_n, upd_count,
            modification_lock>>
mainVars == <<kind, Main, temp_undeclared>>
queueVars == <<undeclared, unfinished_tasks>>
clientVars == <<tracked_settings, client_context_features, update_event, manual_update,
                keep_going, update_error, etag, last_cache_time>>
declarationVars == <<declaration_pc, declaring, startup_backlog, declaration_log>>
updateVars == <<update_pc, queried, update_response, cycles>>
appVars == <<app_pc, app_call, app_result, reloads, reload_settings>>
handoverVars == <<clients, handover, last_update, track_call, patch_call>>
programVars == <<mainVars, settings, queueVars, clientVars, declarationVars,
                 updateVars, appVars, handoverVars>>
vars == <<treeVars, settingVars, getVars, updVars, programVars>>

(***************************************************************************)
(* Bounds of the model.                                                    *)
(***************************************************************************)
MaxDims == 2
MaxRules == 2
\* the rules of a collation without keys, which are all alike but for the value
MaxRulesNoKeys == 4
MaxUpdates == 2

(***************************************************************************)
(* Python values.                                                          *)
(***************************************************************************)
None == "None"
Null == [none |-> TRUE]
Leaf(v) == [leaf |-> v]
EmptyBranch == [k \in {} |-> 0]
Raised(name) == [raised |-> name]
\* heksher/clients/subclasses.py, line 27: TRACK_ALL = '*', a str
Str(s) == [str |-> s]
TRACK_ALL == Str("*")
AssertionError == Raised("AssertionError")
RuntimeError == Raised("RuntimeError")
ValueError == Raised("ValueError")
NoMatchError == Raised("NoMatchError")
IsRaised(r) == DOMAIN r = {"raised"}
False == [matched |-> FALSE]
RuleMatch(value, exact_match_depth) ==
    [value |-> value, exact_match_depth |-> exact_match_depth]
Range(s) == {s[i] : i \in DOMAIN s}
\* the greatest of a set of indices
Latest(indices) == CHOOSE i \in indices : \A j \in indices : j <= i

(***************************************************************************)
(* heksher/util.py: zip_supersequence(keys, conditions,                    *)
(* subseq_key=itemgetter(0)).  A condition is a pair <<cf, value>>; the    *)
(* default coupled with an unmatched key is None, written <<>> here (both  *)
(* are falsy where collate_rules tests them).  The generator is consumed   *)
(* to its end by collate_rules, so its outcome is the whole list of        *)
(* couples, [couples |-> ...], or AssertionError('not a supersequence').   *)
(***************************************************************************)
RECURSIVE zip_from(_, _, _, _)
zip_from(supersequence, subsequence, i, j) ==
    IF j > Len(subsequence)
    THEN \* the subsequence is used up: the rest is coupled with the default
         [couples |-> [k \in 1..(Len(supersequence) - i + 1) |-> <<>>]]
    ELSE IF i > Len(supersequence)
    THEN \* the for loop ended without a break
         AssertionError
    ELSE LET matches == supersequence[i] = subsequence[j][1]
             rest == zip_from(supersequence, subsequence, i + 1,
                              IF matches THEN j + 1 ELSE j)
         IN IF IsRaised(rest) THEN rest
            ELSE [couples |-> <<IF matches THEN subsequence[j] ELSE <<>>>>
                                 \o rest.couples]

zip_supersequence(supersequence, subsequence) ==
    zip_from(supersequence, subsequence, 1, 1)

(***************************************************************************)
(* heksher/clients/util.py: collate_rules.  A rule is                      *)
(* [conditions |-> <<<<cf, value>>, ...>>, value |-> Leaf(n)].             *)
(***************************************************************************)
Put(branch, key, child) ==
    [k \in DOMAIN branch \cup {key} |-> IF k = key THEN child ELSE branch[k]]

\* the key of one level as it would be were a wildcard stored as '*'
PathKey_Star(condition) == IF condition # <<>> THEN condition[2] ELSE "*"

\* the key of one level: the condition's value, or None for a wildcard
PathKey(condition) == IF condition # <<>> THEN condition[2] ELSE None

\* the path as it would be set were the child of each key made anew
RECURSIVE SetPath_NewChild(_, _, _)
SetPath_NewChild(branch, path, value) ==
    IF Len(path) = 1
    THEN Put(branch, path[1], value)
    ELSE Put(branch, path[1], SetPath_NewChild(EmptyBranch, Tail(path), value))

\* parent.setdefault(child_key, {}) along the path, then parent[child_key] = value
RECURSIVE SetPath(_, _, _)
SetPath(branch, path, value) ==
    IF Len(path) = 1
    THEN Put(branch, path[1], value)
    ELSE LET child == IF path[1] \in DOMAIN branch
                      THEN branch[path[1]] ELSE EmptyBranch
         IN Put(branch, path[1], SetPath(child, Tail(path), value))

\* the node a path leads to has a child for the last key of the path
RECURSIVE HasPath(_, _)
HasPath(branch, path) ==
    /\ path[1] \in DOMAIN branch
    /\ Len(path) > 1 => HasPath(branch[path[1]], Tail(path))

\* one turn of the loop as it would be were a leaf that is there kept
collate_rule_KeepFirst(root, keys, rule) ==
    LET zipped == zip_supersequence(keys, rule.conditions)
        path == [i \in DOMAIN zipped.couples |-> PathKey(zipped.couples[i])]
    IN IF IsRaised(zipped) THEN zipped
       ELSE IF HasPath(root, path) THEN root
       ELSE SetPath(root, path, rule.value)

\* one turn of the loop "for conditions, value in rules" (keys not empty)
collate_rule(root, keys, rule) ==
    LET zipped == zip_supersequence(keys, rule.conditions)
    IN IF IsRaised(zipped) THEN zipped
       ELSE SetPath(root,
                    [i \in DOMAIN zipped.couples |-> PathKey(zipped.couples[i])],
                    rule.value)

RECURSIVE collate_loop(_, _, _, _)
collate_loop(root, keys, rules, n) ==
    IF n > Len(rules) THEN root
    ELSE LET next == collate_rule(root, keys, rules[n])
         IN IF IsRaised(next) THEN next
            ELSE collate_loop(next, keys, rules, n + 1)

\* the special case "if not keys": the value of the first rule, or of the
\* second one when there is a second one (ret is assigned by each next())
collate_no_keys(rules) ==
    IF Len(rules) = 0 THEN EmptyBranch
    ELSE IF rules[1].conditions # <<>> THEN AssertionError
    ELSE IF Len(rules) = 1 THEN rules[1].value
    ELSE IF rules[2].conditions # <<>> THEN AssertionError
    ELSE rules[2].value

collate_rules(keys, rules) ==
    IF Len(keys) = 0 THEN collate_no_keys(rules)
    ELSE collate_loop(EmptyBranch, keys, rules, 1)

(***************************************************************************)
(* heksher/setting.py: RuleSet.resolve.  context_namespace is a function   *)
(* from the features it names to their values.                             *)
(***************************************************************************)
\* the comparison as it would be were the tie to go to the wildcard branch
MaxMatch_WildcardOnTie(exact, wildcard) ==
    IF wildcard.exact_match_depth >= exact.exact_match_depth
    THEN wildcard ELSE exact

\* max(exact, wildcard, key=attrgetter('exact_match_depth')): the first maximal
MaxMatch(exact, wildcard) ==
    IF wildcard.exact_match_depth > exact.exact_match_depth
    THEN wildcard ELSE exact

RECURSIVE resolve_branch(_, _, _, _, _)
resolve_branch(features, context_namespace, current, depth, exact_match_depth) ==
    IF depth = Len(features)
    THEN RuleMatch(current, exact_match_depth)
    ELSE LET feature == features[depth + 1]
         IN IF feature \notin DOMAIN context_namespace
            THEN RuntimeError
            ELSE LET feature_value == context_namespace[feature]
                     exact == IF feature_value \in DOMAIN current
                              THEN resolve_branch(features,
                                       context_namespace, current[feature_value],
                                       depth + 1, depth)
                              ELSE False
                 IN IF IsRaised(exact) THEN exact
                    ELSE LET wildcard == IF None \in DOMAIN current
                                         THEN resolve_branch(features,
                                                  context_namespace, current[None],
                                                  depth + 1, exact_match_depth)
                                         ELSE False
                         IN IF IsRaised(wildcard) THEN wildcard
                            ELSE IF exact # False /\ wildcard # False
                            THEN MaxMatch(exact, wildcard)
                            ELSE IF exact # False THEN exact ELSE wildcard

\* ret = _resolve(self.root); raise NoMatchError if not ret; return ret.value
resolve(root, context_namespace, features) ==
    LET ret == resolve_branch(features, context_namespace, root, 0, -1)
    IN IF IsRaised(ret) THEN ret
       ELSE IF ret = False THEN NoMatchError
       ELSE ret.value

(***************************************************************************)
(* SpecTree: collate_rules and RuleSet.resolve on bounded inputs.          *)
(* The inputs are every list of at most MaxRules rules over the first      *)
(* n <= MaxDims features (at most MaxRulesNoKeys rules when n = 0; rule i  *)
(* carries the value i: collation and resolution never look into a         *)
(* value), the conditions of a rule being in the order of the features or  *)
(* malformed (a feature that is not a key, a feature twice, the features   *)
(* in the reverse order), and the rule sets of the repository's            *)
(* documentation and tests.  A namespace gives a value to some or all of   *)
(* the features.                                                           *)
(***************************************************************************)
Features == <<"a", "b", "c">>
RuleVals == {"x", "y"}
Unset == [unset |-> TRUE]

\* the conditions of the rule that has key f[i] (a value or None) at feature i
CondsOf(keys, f) ==
    LET all == [i \in DOMAIN keys |-> <<keys[i], f[i]>>]
        IsExact(c) == c[2] # None
    IN SelectSeq(all, IsExact)

AllConds(keys) == {CondsOf(keys, f) : f \in [DOMAIN keys -> RuleVals \cup {None}]}

\* conditions that are not taken from the keys in their order: a feature that
\* is not a key, alone or after a condition on the first key, the first key
\* twice, and the keys in the reverse order
MalformedConds(keys) ==
    {<<<<"z", "x">>>>} \cup
    (IF Len(keys) >= 1
     THEN {<<<<keys[1], "x">>, <<"z", "x">>>>, <<<<keys[1], "x">>, <<keys[1], "y">>>>}
     ELSE {<<<<"a", "x">>>>}) \cup
    (IF Len(keys) >= 2
     THEN {[i \in DOMAIN keys |-> <<keys[Len(keys) + 1 - i], "x">>]}
     ELSE {})

RuleListsOf(conds, max) ==
    UNION {{[i \in 1..m |-> [conditions |-> cs[i], value |-> Leaf(i)]] :
                cs \in [1..m -> conds]} : m \in 0..max}

RuleLists(keys) ==
    RuleListsOf(AllConds(keys) \cup MalformedConds(keys),
                IF keys = <<>> THEN MaxRulesNoKeys ELSE MaxRules)

Rule(conditions, n) == [conditions |-> conditions, value |-> Leaf(n)]

\* {a=x}->1, {b=y}->2, {a=x,b=y}->3 over [a,b]
ExampleSpecificity ==
    [keys |-> <<"a", "b">>,
     rules |-> <<Rule(<<<<"a", "x">>>>, 1), Rule(<<<<"b", "y">>>>, 2),
                 Rule(<<<<"a", "x">>, <<"b", "y">>>>, 3)>>,
     others |-> {"w", "z"}]
\* {c=z}->10, {a=x}->20 over [a,b,c]
ExampleDeepest ==
    [keys |-> <<"a", "b", "c">>,
     rules |-> <<Rule(<<<<"c", "z">>>>, 10), Rule(<<<<"a", "x">>>>, 20)>>,
     others |-> {"w"}]
\* tests/unittest/test_stubs.py: {}->0, {theme=dark}->1, {user=admin}->2
ExampleStub ==
    [keys |-> <<"user", "theme">>,
     rules |-> <<Rule(<<>>, 0), Rule(<<<<"theme", "dark">>>>, 1),
                 Rule(<<<<"user", "admin">>>>, 2)>>,
     others |-> {""}]
\* tests/unittest/test_utils.py, test_collate_conflict: {a=A0} is given twice
ExampleConflict ==
    [keys |-> <<"a", "b", "c">>,
     rules |-> <<Rule(<<>>, 0), Rule(<<<<"a", "A0">>>>, 1),
                 Rule(<<<<"a", "A0">>, <<"b", "B0">>>>, 2),
                 Rule(<<<<"b", "B1">>>>, 3), Rule(<<<<"a", "A0">>>>, 5)>>,
     others |-> {"w"}]
\* {a=x} three times, with another rule in between
ExampleTriple ==
    [keys |-> <<"a", "b">>,
     rules |-> <<Rule(<<<<"a", "x">>>>, 1), Rule(<<<<"b", "y">>>>, 2),
                 Rule(<<<<"a", "x">>>>, 3), Rule(<<<<"a", "x">>>>, 4)>>,
     others |-> {"w"}]
Examples ==
    {ExampleSpecificity, ExampleDeepest, ExampleStub, ExampleConflict, ExampleTriple}

UsedValues(rules) ==
    UNION {{rules[i].conditions[j][2] : j \in DOMAIN rules[i].conditions} :
              i \in DOMAIN rules}

\* the values a namespace may give: those the rules name, and others
NamespaceValues(keys, rules) ==
    UsedValues(rules) \cup
    (IF \E ex \in Examples : ex.keys = keys /\ ex.rules = rules
     THEN UNION {ex.others : ex \in {e \in Examples : e.keys = keys /\ e.rules = rules}}
     ELSE {"w"})

Namespaces(keys, rules) ==
    UNION {[D -> NamespaceValues(keys, rules)] : D \in SUBSET Range(keys)}

\* the Setting part of the state, where a specification does not use it
\* there is one client at most
HandoverUnused ==
    /\ clients = EmptyBranch /\ handover = Null /\ last_update = Null
    /\ track_call = Null /\ patch_call = Null

\* no loop of a client runs and no application calls it
LoopsUnused ==
    /\ undeclared = <<>> /\ unfinished_tasks = 0
    /\ tracked_settings = {} /\ client_context_features = <<>>
    /\ update_event = FALSE /\ manual_update = FALSE /\ keep_going = TRUE
    /\ update_error = Null /\ etag = 0 /\ last_cache_time = 0
    /\ declaration_pc = "unused" /\ declaring = None /\ startup_backlog = {}
    /\ declaration_log = EmptyBranch
    /\ update_pc = "unused" /\ queried = {} /\ update_response = Null
    /\ cycles = 0
    /\ app_pc = "unused" /\ app_call = "" /\ app_result = Unset /\ reloads = 0
    /\ reload_settings = {}

\* no client is involved
ClientUnused ==
    /\ HandoverUnused /\ LoopsUnused
    /\ kind = "unused" /\ Main = "temp" /\ temp_undeclared = {}
    /\ settings = EmptyBranch

SettingUnused ==
    /\ configurable_features = <<>>
    /\ default_value = Null
    /\ server_default_value = Null
    /\ last_ruleset = Null
    /\ heap = <<>>
    /\ const_context_features = EmptyBranch
    /\ declared = Null
    /\ get_pc = "unused" /\ get_contexts = EmptyBranch /\ get_ruleset = Null
    /\ get_from_rules = Unset /\ get_result = Unset
    /\ upd_pc = "unused" /\ upd_rules = <<>> /\ upd_root = 0 /\ upd_n = 0
    /\ upd_count = 0 /\ upd_reply = Null /\ modification_lock = FALSE

TreeInit ==
    /\ SettingUnused /\ ClientUnused
    /\ tree_pc = "input"
    /\ \/ /\ tree_keys \in {SubSeq(Features, 1, n) : n \in 0..MaxDims}
          /\ tree_rules \in RuleLists(tree_keys)
       \/ \E ex \in Examples : tree_keys = ex.keys /\ tree_rules = ex.rules
    /\ tree_root = Unset
    /\ tree_ns = EmptyBranch
    /\ tree_ret = Unset

Collate ==
    /\ tree_pc = "input"
    /\ tree_root' = collate_rules(tree_keys, tree_rules)
    /\ tree_pc' = IF IsRaised(tree_root') THEN "raised" ELSE "collated"
    /\ UNCHANGED <<tree_keys, tree_rules, tree_ns, tree_ret>>
    /\ UNCHANGED <<settingVars, getVars, updVars, programVars>>

Resolve ==
    /\ tree_pc = "collated"
    /\ \E ns \in Namespaces(tree_keys, tree_rules) :
          /\ tree_ns' = ns
          /\ tree_ret' = resolve(tree_root, ns, tree_keys)
    /\ tree_pc' = "resolved"
    /\ UNCHANGED <<tree_keys, tree_rules, tree_root>>
    /\ UNCHANGED <<settingVars, getVars, updVars, programVars>>

TreeNext == Collate \/ Resolve

SpecTree == TreeInit /\ [][TreeNext]_vars

(***************************************************************************)
(* What resolution is meant to return, stated on the rules themselves.     *)
(***************************************************************************)
Total(ns, keys) == Range(keys) \subseteq DOMAIN ns

\* all the conditions of the rule hold in the namespace
Matches(rule, ns) ==
    \A j \in DOMAIN rule.conditions :
        /\ rule.conditions[j][1] \in DOMAIN ns
        /\ ns[rule.conditions[j][1]] = rule.conditions[j][2]

IndexOf(keys, cf) == CHOOSE i \in DOMAIN keys : keys[i] = cf

\* 0-based index of the last feature the rule has a condition on, -1 if none
LastExact(rule, keys) ==
    IF rule.conditions = <<>> THEN -1
    ELSE IndexOf(keys, rule.conditions[Len(rule.conditions)][1]) - 1

IsExactAt(rule, cf) == \E j \in DOMAIN rule.conditions : rule.conditions[j][1] = cf

\* the rules that are not overwritten by a later rule of the same path
Surviving(rules) ==
    {rules[i] : i \in {k \in DOMAIN rules :
                         \A l \in DOMAIN rules :
                             l > k => rules[l].conditions # rules[k].conditions}}

MatchingRules(rules, ns) == {r \in Surviving(rules) : Matches(r, ns)}

\* r1 is preferred to r2: its last exact condition is later, or they are equally
\* late and at the first feature where only one of them has a condition it is r1
Preferred(r1, r2, keys) ==
    \/ LastExact(r1, keys) > LastExact(r2, keys)
    \/ /\ LastExact(r1, keys) = LastExact(r2, keys)
       /\ \E i \in DOMAIN keys :
             /\ IsExactAt(r1, keys[i]) /\ ~IsExactAt(r2, keys[i])
             /\ \A k \in 1..(i - 1) : IsExactAt(r1, keys[k]) <=> IsExactAt(r2, keys[k])

NamespaceOf(keys, values) == [cf \in Range(keys) |-> values[IndexOf(keys, cf)]]

IsExample(ex) == tree_keys = ex.keys /\ tree_rules = ex.rules

(***************************************************************************)
(* C1: on a collated tree and a namespace that gives every configurable    *)
(* feature a value, resolve returns the value of a matching rule whose     *)
(* last exact-match position is the greatest among the matching rules, and *)
(* among equally deep matches the one found under the exact child at the   *)
(* first node where they part; [a,b] with {a=x}->1, {b=y}->2,              *)
(* {a=x,b=y}->3 gives 3 at (x,y), 1 at (x,z), 2 at (w,y); [a,b,c] with     *)
(* {c=z}->10, {a=x}->20 gives 10 at a=x, c=z.                              *)
(***************************************************************************)
C1_ResolveDeepestMatch ==
    (tree_pc = "resolved" /\ Total(tree_ns, tree_keys)) =>
        /\ (Len(tree_keys) > 0 /\ MatchingRules(tree_rules, tree_ns) # {}) =>
              \E r \in MatchingRules(tree_rules, tree_ns) :
                  /\ tree_ret = r.value
                  /\ \A o \in MatchingRules(tree_rules, tree_ns) \ {r} :
                        /\ LastExact(r, tree_keys) >= LastExact(o, tree_keys)
                        /\ Preferred(r, o, tree_keys)
        /\ (Len(tree_keys) = 0 /\ tree_rules # <<>>) =>
              \E i \in DOMAIN tree_rules : tree_ret = tree_rules[i].value
        /\ IsExample(ExampleSpecificity) =>
              /\ tree_ns = NamespaceOf(tree_keys, <<"x", "y">>) => tree_ret = Leaf(3)
              /\ tree_ns = NamespaceOf(tree_keys, <<"x", "z">>) => tree_ret = Leaf(1)
              /\ tree_ns = NamespaceOf(tree_keys, <<"w", "y">>) => tree_ret = Leaf(2)
        /\ IsExample(ExampleDeepest) =>
              \A b \in {"w", "x", "z"} :
                  tree_ns = NamespaceOf(tree_keys, <<"x", b, "z">>) => tree_ret = Leaf(10)

\* both children of the root match equally deep, and the exact child's match is returned
C1_Witness ==
    /\ tree_pc = "resolved"
    /\ IsExample(ExampleSpecificity)
    /\ tree_ns = NamespaceOf(tree_keys, <<"x", "y">>)
    /\ tree_ret = Leaf(3)

\* the conditions of the rule are conditions on keys, in the order of the keys
\* and on each key once at most
IsSubsequence(conditions, keys) ==
    \E pos \in [DOMAIN conditions -> DOMAIN keys] :
        /\ \A j \in DOMAIN conditions : keys[pos[j]] = conditions[j][1]
        /\ \A j, k \in DOMAIN conditions : j < k => pos[j] < pos[k]

WellFormed(rules, keys) ==
    \A i \in DOMAIN rules : IsSubsequence(rules[i].conditions, keys)

\* the path of a rule: for each key the value the rule has for it, or None
RulePath(rule, keys) ==
    [i \in DOMAIN keys |->
        IF \E j \in DOMAIN rule.conditions : rule.conditions[j][1] = keys[i]
        THEN rule.conditions[CHOOSE j \in DOMAIN rule.conditions :
                                 rule.conditions[j][1] = keys[i]][2]
        ELSE None]

IsLeaf(node) == DOMAIN node = {"leaf"}

\* every path from the node to a leaf has this many keys, and no branch below
\* it is empty
RECURSIVE UniformDepth(_, _)
UniformDepth(node, depth) ==
    IF depth = 0 THEN IsLeaf(node)
    ELSE /\ ~IsLeaf(node)
         /\ DOMAIN node # {}
         /\ \A k \in DOMAIN node : UniformDepth(node[k], depth - 1)

\* the paths of a tree of uniform depth, each with its leaf
RECURSIVE LeavesOf(_, _)
LeavesOf(node, depth) ==
    IF depth = 0 THEN {[path |-> <<>>, value |-> node]}
    ELSE UNION {{[path |-> <<k>> \o l.path, value |-> l.value] :
                    l \in LeavesOf(node[k], depth - 1)} : k \in DOMAIN node}

\* collate_rules returned a tree for keys and well-formed rules
CollatedWithKeys ==
    /\ tree_pc = "collated"
    /\ tree_keys # <<>>
    /\ WellFormed(tree_rules, tree_keys)

(***************************************************************************)
(* C24: for keys and a list of rules whose conditions are subsequences of  *)
(* the keys, collate_rules returns a tree whose every path from the root   *)
(* to a leaf is as long as the keys, the paths being the paths of the      *)
(* rules (at depth i the rule's value for key i, or None for a wildcard);  *)
(* a node has one child per key at most, the representation being a        *)
(* mapping; and without rules the tree is the empty one.                   *)
(***************************************************************************)
C24_CollatedTreeIsUniform ==
    CollatedWithKeys =>
        /\ tree_rules = <<>> => tree_root = EmptyBranch
        /\ tree_rules # <<>> => UniformDepth(tree_root, Len(tree_keys))
        /\ {l.path : l \in LeavesOf(tree_root, Len(tree_keys))} =
              {RulePath(tree_rules[i], tree_keys) : i \in DOMAIN tree_rules}

\* the three rules of the example over [a, b] were collated into
\* {x: {None: 1, y: 3}, None: {y: 2}}
C24_Witness ==
    /\ tree_pc = "collated"
    /\ IsExample(ExampleSpecificity)
    /\ tree_root = [k \in {"x", None} |->
                       IF k = "x"
                       THEN [j \in {None, "y"} |->
                                IF j = "y" THEN Leaf(3) ELSE Leaf(1)]
                       ELSE [j \in {"y"} |-> Leaf(2)]]

\* the rules that have this path, by their place in the list
RulesAt(path) ==
    {i \in DOMAIN tree_rules : RulePath(tree_rules[i], tree_keys) = path}

\* two rules of the list have the same path
HasConflict ==
    \E i, j \in DOMAIN tree_rules :
        i < j /\ RulePath(tree_rules[i], tree_keys) = RulePath(tree_rules[j], tree_keys)

\* the rules no later rule has the path of, in their order
Unshadowed ==
    LET IsLast(i) == \A j \in DOMAIN tree_rules :
                        RulePath(tree_rules[j], tree_keys) =
                            RulePath(tree_rules[i], tree_keys) => j <= i
        F[i \in 0..Len(tree_rules)] ==
            IF i = 0 THEN <<>>
            ELSE IF IsLast(i) THEN Append(F[i - 1], tree_rules[i]) ELSE F[i - 1]
    IN F[Len(tree_rules)]

CollatedWithoutKeys ==
    /\ tree_pc = "collated"
    /\ tree_keys = <<>>
    /\ \A i \in DOMAIN tree_rules : tree_rules[i].conditions = <<>>

(***************************************************************************)
(* C26: collate_rules without keys returns the value of the rule when      *)
(* there is one rule, the value of the last rule when there are two or     *)
(* more, and the empty branch (the mark of 'no rule') when there is none.  *)
(***************************************************************************)
C26_NoKeysReturnsLastRule ==
    CollatedWithoutKeys =>
        tree_root = IF tree_rules = <<>> THEN EmptyBranch
                    ELSE tree_rules[Len(tree_rules)].value

\* the permutations of the places of the list
OrdersOf(n) ==
    {p \in [1..n -> 1..n] : \A i, j \in 1..n : p[i] = p[j] => i = j}

Permuted(rules, p) == [i \in DOMAIN rules |-> rules[p[i]]]

(***************************************************************************)
(* C27: for keys and a list of well-formed rules no two of which have the  *)
(* same path, collate_rules returns the same tree for every permutation of *)
(* the list.                                                               *)
(***************************************************************************)
C27_CollateIsOrderIndependent ==
    (tree_pc = "collated" /\ WellFormed(tree_rules, tree_keys) /\ ~HasConflict) =>
        \A p \in OrdersOf(Len(tree_rules)) :
            collate_rules(tree_keys, Permuted(tree_rules, p)) = tree_root

\* {a=x,b=y} was collated before {a=x}: the two leaves are under the same child
\* of the root
C27_Witness ==
    /\ tree_pc = "collated" /\ ~HasConflict
    /\ tree_keys = <<"a", "b">> /\ Len(tree_rules) = 2
    /\ tree_rules[1].conditions = <<<<"a", "x">>, <<"b", "y">>>>
    /\ tree_rules[2].conditions = <<<<"a", "x">>>>
    /\ DOMAIN tree_root = {"x"} /\ DOMAIN tree_root["x"] = {"y", None}

(***************************************************************************)
(* C28: collate_rules raises AssertionError, and returns no tree, exactly  *)
(* when some rule of the list has conditions that are not a subsequence of *)
(* the keys: a condition on a feature that is not a key, conditions out of *)
(* the order of the keys, or any condition when there are no keys.         *)
(***************************************************************************)
C28_MalformedRulesAreRejected ==
    tree_pc \in {"collated", "raised"} =>
        /\ tree_pc = "raised" <=> ~WellFormed(tree_rules, tree_keys)
        /\ tree_pc = "raised" => tree_root = AssertionError

(***************************************************************************)
(* heksher/setting_type.py, heksher/setting.py: converting a value of the  *)
(* service.  The setting is declared with type int (SimpleSettingType):    *)
(* a JSON value is [type |-> "int", json |-> n] or of some other type,     *)
(* and convert_from_heksher raises TypeError unless it is an int; no       *)
(* coercion happens for a primitive type and the setting has no validator. *)
(***************************************************************************)
TypeError == Raised("TypeError")
JsonInt(n) == [type |-> "int", json |-> n]
JsonStr == [type |-> "str", json |-> 0]

convert_server_value(raw_value) ==
    IF raw_value.type = "int" THEN Leaf(raw_value.json) ELSE TypeError

(***************************************************************************)
(* heksher/clients/subclasses.py: ContextFeaturesMixin.context_namespace   *)
(* (the constant defaults of the client, overridden by the caller's).      *)
(***************************************************************************)
context_namespace(defaults, user_namespace) ==
    [k \in DOMAIN defaults \cup DOMAIN user_namespace |->
        IF k \in DOMAIN user_namespace THEN user_namespace[k] ELSE defaults[k]]

(***************************************************************************)
(* heksher/setting.py: Setting.get, as one call that nothing interrupts    *)
(* (the cooperative model: get has no suspension point).                   *)
(***************************************************************************)
no_match == [no_match |-> TRUE]

\* self.server_default_value if self.server_default_value is not None
\* else self.default_value
default_or_server(server_default, default) ==
    IF server_default # Null THEN server_default ELSE default

\* lines 124-131: the outcome of the rules, no_match or an exception
from_rules_of(ruleset, objects, contexts, defaults, features) ==
    IF ruleset # Null
    THEN LET r == resolve(objects[ruleset.root],
                          context_namespace(defaults, contexts), features)
         IN IF r = NoMatchError THEN no_match ELSE r
    ELSE no_match

\* line 120 as it would be with the difference taken the other way round
redundant_keys_Reversed(contexts, features) == Range(features) \ DOMAIN contexts

\* line 120: contexts.keys() - self.configurable_features
redundant_keys(contexts, features) == DOMAIN contexts \ Range(features)

Setting_get(contexts) ==
    IF redundant_keys(contexts, configurable_features) # {} THEN ValueError
    ELSE LET from_rules == from_rules_of(last_ruleset, heap, contexts,
                                         const_context_features,
                                         configurable_features)
         IN IF from_rules = no_match
            THEN default_or_server(server_default_value, default_value)
            ELSE from_rules

(***************************************************************************)
(* heksher/clients/subclasses.py: _update_settings_from_query, for one     *)
(* setting of the reply: the rules that are kept.                          *)
(* A rule of a reply is [rule_id, context_features, value].                *)
(***************************************************************************)
QueryRule(rule_id, context_features, value) ==
    [rule_id |-> rule_id, context_features |-> context_features, value |-> value]

unrecognized_cf(rule_mapping, features) ==
    {rule_mapping.context_features[j][1] :
        j \in DOMAIN rule_mapping.context_features} \ Range(features)

IsKept(rule_mapping, features) ==
    /\ unrecognized_cf(rule_mapping, features) = {}
    /\ convert_server_value(rule_mapping.value) # TypeError

\* the rules kept were every rule after a rejected one rejected as well
RECURSIVE kept_rules_StopAtRejected(_, _)
kept_rules_StopAtRejected(rule_mappings, features) ==
    IF rule_mappings = <<>> \/ ~IsKept(Head(rule_mappings), features) THEN <<>>
    ELSE <<[conditions |-> Head(rule_mappings).context_features,
            value |-> convert_server_value(Head(rule_mappings).value)]>>
         \o kept_rules_StopAtRejected(Tail(rule_mappings), features)

RECURSIVE kept_rules(_, _)
kept_rules(rule_mappings, features) ==
    IF rule_mappings = <<>> THEN <<>>
    ELSE (IF IsKept(Head(rule_mappings), features)
          THEN <<[conditions |-> Head(rule_mappings).context_features,
                  value |-> convert_server_value(Head(rule_mappings).value)]>>
          ELSE <<>>) \o kept_rules(Tail(rule_mappings), features)

\* lines 198-208: the server default after the reply's default_value
new_server_default(current, new_default) ==
    IF convert_server_value(new_default) = TypeError THEN current
    ELSE convert_server_value(new_default)

(***************************************************************************)
(* heksher/clients/subclasses.py: apply_difference and                     *)
(* _handle_declaration_response, as far as the setting is concerned.       *)
(* A response is [outcome, differences]; a difference is                   *)
(* [attribute, latest_value].                                              *)
(***************************************************************************)
apply_difference(current, difference) ==
    IF difference.attribute = "default_value"
    THEN new_server_default(current, difference.latest_value)
    ELSE current

RECURSIVE apply_differences(_, _)
apply_differences(current, differences) ==
    IF differences = <<>> THEN current
    ELSE apply_differences(apply_difference(current, Head(differences)),
                           Tail(differences))

\* the server default as it would be were the differences of every outcome
\* applied
declared_server_default_AnyOutcome(current, response) ==
    apply_differences(current, response.differences)

\* the server default after the response was handled
declared_server_default(current, response) ==
    IF response.outcome = "outdated"
    THEN apply_differences(current, response.differences)
    ELSE current

(***************************************************************************)
(* SpecSetting: one Setting of type int and default 50, a client that      *)
(* applies query replies to it (at most MaxUpdates of them), the           *)
(* declaration response, and a caller of Setting.get.  get is taken both   *)
(* as one uninterrupted call (GetCall) and, for a caller on another thread *)
(* than the update loop, read by read (GetStart ... GetServerDefault).     *)
(***************************************************************************)
TreeUnused ==
    /\ tree_pc = "unused" /\ tree_keys = <<>> /\ tree_rules = <<>>
    /\ tree_root = Unset /\ tree_ns = EmptyBranch /\ tree_ret = Unset

SettingShapes == {<<>>, <<"region">>, <<"region", "tier">>}

Reply(rule_mappings, new_default) ==
    [rules |-> rule_mappings, default_value |-> new_default]

\* the reply of the end-to-end example: {region=eu} -> 100, default 50
ReplyEu == Reply(<<QueryRule(1, <<<<"region", "eu">>>>, JsonInt(100))>>, JsonInt(50))

Replies(features) ==
    IF features = <<>>
    THEN {Reply(<<>>, JsonInt(60)),
          Reply(<<QueryRule(1, <<>>, JsonInt(100))>>, JsonInt(50))}
    ELSE IF features = <<"region">>
    THEN {ReplyEu,
          Reply(<<QueryRule(1, <<<<"region", "eu">>>>, JsonInt(100)),
                  QueryRule(2, <<<<"region", "us">>>>, JsonInt(200))>>, JsonInt(80)),
          \* a rule on an unknown feature, a value and a default of the wrong type
          Reply(<<QueryRule(1, <<<<"zone", "eu">>>>, JsonInt(7)),
                  QueryRule(2, <<<<"region", "eu">>>>, JsonStr),
                  QueryRule(3, <<>>, JsonInt(70))>>, JsonStr),
          Reply(<<>>, JsonInt(60))}
    ELSE {Reply(<<QueryRule(1, <<<<"tier", "gold">>>>, JsonInt(300))>>, JsonInt(50)),
          Reply(<<QueryRule(1, <<<<"region", "eu">>>>, JsonInt(100)),
                  QueryRule(2, <<<<"region", "eu">>, <<"tier", "gold">>>>, JsonInt(400))>>,
                JsonInt(80)),
          \* good rules among a rule on an unknown feature and a value of the
          \* wrong type, and a default of the wrong type
          Reply(<<QueryRule(1, <<<<"region", "eu">>>>, JsonInt(100)),
                  QueryRule(2, <<<<"region", "eu">>, <<"zone", "z">>>>, JsonInt(7)),
                  QueryRule(3, <<<<"region", "eu">>, <<"tier", "gold">>>>, JsonStr),
                  QueryRule(4, <<<<"tier", "gold">>>>, JsonInt(300))>>, JsonStr),
          \* conditions that are not in the order of the features
          Reply(<<QueryRule(1, <<<<"tier", "gold">>, <<"region", "eu">>>>, JsonInt(7))>>,
                JsonInt(60))}

DeclarationResponse(outcome, differences) ==
    [outcome |-> outcome, differences |-> differences]
Difference(attribute, latest_value) ==
    [attribute |-> attribute, latest_value |-> latest_value]

\* the responses of the service: each outcome the client knows, and for
\* 'outdated' a default that converts, one that does not, a difference of
\* another attribute, and two differences
DeclarationResponses ==
    {DeclarationResponse("created", <<>>),
     DeclarationResponse("uptodate", <<>>),
     DeclarationResponse("upgraded", <<Difference("default_value", JsonInt(60))>>),
     DeclarationResponse("mismatch", <<Difference("default_value", JsonInt(60))>>),
     DeclarationResponse("rejected", <<Difference("default_value", JsonInt(60))>>),
     DeclarationResponse("outdated", <<>>),
     DeclarationResponse("outdated", <<Difference("default_value", JsonInt(60))>>),
     DeclarationResponse("outdated", <<Difference("default_value", JsonStr)>>),
     DeclarationResponse("outdated",
                         <<Difference("configurable_features", JsonInt(60))>>),
     DeclarationResponse("outdated", <<Difference("default_value", JsonInt(60)),
                                       Difference("default_value", JsonStr)>>),
     DeclarationResponse("outdated", <<Difference("configurable_features", JsonStr),
                                       Difference("default_value", JsonInt(70))>>)}

FeatureValues(feature) ==
    IF feature = "region" THEN {"eu", "us"}
    ELSE IF feature = "tier" THEN {"gold"}
    ELSE {"eu"}

\* the keyword arguments of a get: some of the features, and perhaps "zone",
\* which no setting is configured by
Contexts(features) ==
    UNION {{f \in [D -> {"eu", "us", "gold"}] : \A k \in D : f[k] \in FeatureValues(k)} :
              D \in SUBSET (Range(features) \cup {"zone"})}

ClientDefaults(features) ==
    {EmptyBranch} \cup
    (IF "tier" \in Range(features) THEN {[k \in {"tier"} |-> "gold"]} ELSE {})

\* the default a setting is constructed with: a value, or None for a setting
\* that has no default
DeclaredDefaults == {Leaf(50), Null}

SettingInit ==
    /\ TreeUnused /\ ClientUnused
    /\ configurable_features \in SettingShapes
    /\ default_value \in DeclaredDefaults
    /\ server_default_value = Null
    /\ last_ruleset = Null
    /\ heap = <<>>
    /\ const_context_features \in ClientDefaults(configurable_features)
    /\ declared = Null
    /\ get_pc = "idle" /\ get_contexts = EmptyBranch /\ get_ruleset = Null
    /\ get_from_rules = Unset /\ get_result = Unset
    /\ upd_pc = "idle" /\ upd_rules = <<>> /\ upd_root = 0 /\ upd_n = 0
    /\ upd_count = 0 /\ upd_reply = Null /\ modification_lock = FALSE

SettingFields == <<configurable_features, default_value, const_context_features>>

\* Setting.get, uninterrupted
GetCall ==
    /\ get_pc = "idle"
    /\ \E contexts \in Contexts(configurable_features) :
          /\ get_contexts' = contexts
          /\ get_result' = Setting_get(contexts)
    /\ get_pc' = "done"
    /\ get_ruleset' = Null
    /\ get_from_rules' = Unset
    /\ UNCHANGED <<treeVars, settingVars, updVars, programVars>>

\* Setting.get read by read.  Lines 120-124: the keys, "if self.last_ruleset"
GetStart ==
    /\ get_pc = "idle"
    /\ \E contexts \in Contexts(configurable_features) :
          /\ get_contexts' = contexts
          /\ IF redundant_keys(contexts, configurable_features) # {}
             THEN get_pc' = "done" /\ get_result' = ValueError
                  /\ get_from_rules' = Unset
             ELSE IF last_ruleset # Null
             THEN get_pc' = "ruleset" /\ get_result' = Unset
                  /\ get_from_rules' = Unset
             ELSE get_pc' = "default" /\ get_result' = Unset
                  /\ get_from_rules' = no_match
    /\ get_ruleset' = Null
    /\ UNCHANGED <<treeVars, settingVars, updVars, programVars>>

\* line 126: self.last_ruleset is read again, for the call of resolve
GetReadRuleset ==
    /\ get_pc = "ruleset"
    /\ get_ruleset' = last_ruleset
    /\ get_pc' = "resolve"
    /\ UNCHANGED <<get_contexts, get_from_rules, get_result>>
    /\ UNCHANGED <<treeVars, settingVars, updVars, programVars>>

\* lines 126-128, 133-135: resolve walks the root the rule set refers to
GetResolve ==
    /\ get_pc = "resolve"
    /\ LET from_rules == from_rules_of(get_ruleset, heap, get_contexts,
                                       const_context_features,
                                       configurable_features)
       IN /\ get_from_rules' = from_rules
          /\ IF from_rules = no_match
             THEN get_pc' = "default" /\ get_result' = Unset
             ELSE get_pc' = "done" /\ get_result' = from_rules
    /\ UNCHANGED <<get_contexts, get_ruleset>>
    /\ UNCHANGED <<treeVars, settingVars, updVars, programVars>>

\* line 134: "self.server_default_value is not None", else the declared default
GetDefault ==
    /\ get_pc = "default"
    /\ IF server_default_value # Null
       THEN get_pc' = "server_default" /\ get_result' = Unset
       ELSE get_pc' = "done" /\ get_result' = default_value
    /\ UNCHANGED <<get_contexts, get_ruleset, get_from_rules>>
    /\ UNCHANGED <<treeVars, settingVars, updVars, programVars>>

\* line 134: self.server_default_value is read again, and returned
GetServerDefault ==
    /\ get_pc = "server_default"
    /\ get_result' = server_default_value
    /\ get_pc' = "done"
    /\ UNCHANGED <<get_contexts, get_ruleset, get_from_rules>>
    /\ UNCHANGED <<treeVars, settingVars, updVars, programVars>>

\* the caller has the result (or the exception) of its get
GetReturn ==
    /\ get_pc = "done"
    /\ get_pc' = "idle"
    /\ get_contexts' = EmptyBranch /\ get_ruleset' = Null
    /\ get_from_rules' = Unset /\ get_result' = Unset
    /\ UNCHANGED <<treeVars, settingVars, updVars, programVars>>

\* update(): the query is sent.  Only a tracked setting is queried, and a
\* setting is tracked once its declaration response was handled.
UpdateQuery ==
    /\ upd_pc = "idle"
    /\ declared # Null
    /\ upd_count < MaxUpdates
    /\ upd_pc' = "query"
    /\ UNCHANGED <<upd_reply, upd_rules, upd_root, upd_n, upd_count,
                   modification_lock>>
    /\ UNCHANGED <<settingVars, treeVars, getVars, programVars>>

\* the request fails, or the service has nothing new (304, raise_for_status):
\* the cycle is over
UpdateNoReply ==
    /\ upd_pc = "query"
    /\ upd_pc' = "idle"
    /\ UNCHANGED <<upd_reply, upd_rules, upd_root, upd_n, upd_count,
                   modification_lock>>
    /\ UNCHANGED <<settingVars, treeVars, getVars, programVars>>

\* the update as it would be did it not take the lock
UpdateReply_NoLock ==
    /\ upd_pc = "query"
    /\ upd_pc' = "locked"
    /\ UNCHANGED <<upd_reply, upd_rules, upd_root, upd_n, upd_count,
                   modification_lock>>
    /\ UNCHANGED <<settingVars, treeVars, getVars, programVars>>

\* the reply has come: with self.modification_lock
UpdateReply ==
    /\ upd_pc = "query"
    /\ ~modification_lock
    /\ modification_lock' = TRUE
    /\ upd_pc' = "locked"
    /\ UNCHANGED <<upd_reply, upd_rules, upd_root, upd_n, upd_count>>
    /\ UNCHANGED <<settingVars, treeVars, getVars, programVars>>

\* _update_settings_from_query, lines 168-208: the rules are filtered and
\* converted, and the server default is assigned.  Only a tracked setting is
\* updated, and a setting is tracked once its declaration response was handled.
UpdateBegin ==
    /\ upd_pc = "locked"
    /\ \E reply \in Replies(configurable_features) :
          /\ upd_reply' = reply
          /\ upd_rules' = kept_rules(reply.rules, configurable_features)
          /\ server_default_value' =
                new_server_default(server_default_value, reply.default_value)
    /\ upd_pc' = "update"
    /\ upd_count' = upd_count + 1
    /\ UNCHANGED <<upd_root, upd_n, modification_lock>>
    /\ UNCHANGED <<SettingFields, last_ruleset, heap, declared>>
    /\ UNCHANGED <<treeVars, getVars, programVars>>

\* Setting.update as it would be were the rule set installed before the root is
\* filled
UpdateAllocate_InstallFirst ==
    /\ upd_pc = "update"
    /\ IF configurable_features = <<>>
       THEN IF IsRaised(collate_no_keys(upd_rules))
            THEN /\ upd_pc' = "idle" /\ modification_lock' = FALSE
                 /\ UNCHANGED <<heap, upd_root, upd_n, last_ruleset>>
            ELSE /\ heap' = Append(heap, collate_no_keys(upd_rules))
                 /\ upd_root' = Len(heap) + 1
                 /\ upd_n' = Len(upd_rules) + 1
                 /\ upd_pc' = "collate"
                 /\ last_ruleset' = [client |-> "client", root |-> Len(heap) + 1]
                 /\ UNCHANGED modification_lock
       ELSE /\ heap' = Append(heap, EmptyBranch)
            /\ upd_root' = Len(heap) + 1
            /\ upd_n' = 1
            /\ upd_pc' = "collate"
            /\ last_ruleset' = [client |-> "client", root |-> Len(heap) + 1]
            /\ UNCHANGED modification_lock
    /\ UNCHANGED <<upd_reply, upd_rules, upd_count>>
    /\ UNCHANGED <<SettingFields, server_default_value, declared>>
    /\ UNCHANGED <<treeVars, getVars, programVars>>

\* Setting.update, collate_rules lines 62-82: a new root; without features the
\* root is the value itself
UpdateAllocate ==
    /\ upd_pc = "update"
    /\ IF configurable_features = <<>>
       THEN IF IsRaised(collate_no_keys(upd_rules))
            THEN /\ upd_pc' = "idle" /\ modification_lock' = FALSE
                 /\ UNCHANGED <<heap, upd_root, upd_n>>
            ELSE /\ heap' = Append(heap, collate_no_keys(upd_rules))
                 /\ upd_root' = Len(heap) + 1
                 /\ upd_n' = Len(upd_rules) + 1
                 /\ upd_pc' = "collate"
                 /\ UNCHANGED modification_lock
       ELSE /\ heap' = Append(heap, EmptyBranch)
            /\ upd_root' = Len(heap) + 1
            /\ upd_n' = 1
            /\ upd_pc' = "collate"
            /\ UNCHANGED modification_lock
    /\ UNCHANGED <<upd_reply, upd_rules, upd_count>>
    /\ UNCHANGED <<SettingFields, server_default_value, last_ruleset, declared>>
    /\ UNCHANGED <<treeVars, getVars, programVars>>

\* collate_rules lines 83-107: one rule is put into the root, in place; an
\* AssertionError ends the update with nothing installed
UpdateCollateRule ==
    /\ upd_pc = "collate"
    /\ upd_n <= Len(upd_rules)
    /\ LET next == collate_rule(heap[upd_root], configurable_features,
                                upd_rules[upd_n])
       IN IF IsRaised(next)
          THEN /\ upd_pc' = "idle" /\ modification_lock' = FALSE
               /\ UNCHANGED <<heap, upd_n>>
          ELSE /\ heap' = [heap EXCEPT ![upd_root] = next]
               /\ upd_n' = upd_n + 1
               /\ UNCHANGED <<upd_pc, modification_lock>>
    /\ UNCHANGED <<upd_reply, upd_rules, upd_root, upd_count>>
    /\ UNCHANGED <<SettingFields, server_default_value, last_ruleset, declared>>
    /\ UNCHANGED <<treeVars, getVars, programVars>>

\* Setting.update line 153: self.last_ruleset = RuleSet(ref(client), root)
UpdateInstall ==
    /\ upd_pc = "collate"
    /\ upd_n > Len(upd_rules)
    /\ last_ruleset' = [client |-> "client", root |-> upd_root]
    /\ upd_pc' = "idle"
    /\ modification_lock' = FALSE
    /\ UNCHANGED <<upd_reply, upd_rules, upd_root, upd_n, upd_count>>
    /\ UNCHANGED <<SettingFields, server_default_value, heap, declared>>
    /\ UNCHANGED <<treeVars, getVars, programVars>>

\* _handle_declaration_response for the setting, on the declaration loop
HandleDeclaration ==
    /\ declared = Null
    /\ \E response \in DeclarationResponses :
          /\ server_default_value' =
                declared_server_default(server_default_value, response)
          /\ declared' = response
    /\ UNCHANGED <<SettingFields, last_ruleset, heap>>
    /\ UNCHANGED <<treeVars, getVars, updVars, programVars>>

SettingNext ==
    \/ GetCall \/ GetStart \/ GetReadRuleset \/ GetResolve \/ GetDefault
    \/ GetServerDefault \/ GetReturn
    \/ UpdateQuery \/ UpdateNoReply \/ UpdateReply
    \/ UpdateBegin \/ UpdateAllocate \/ UpdateCollateRule \/ UpdateInstall
    \/ HandleDeclaration

SpecSetting == SettingInit /\ [][SettingNext]_vars

(***************************************************************************)
(* The rules of a tree, read off the tree: its root-to-leaf paths.  A tree *)
(* without features is the value of its rule, or the empty branch when     *)
(* there was no rule.                                                      *)
(***************************************************************************)
RECURSIVE PathsBelow(_, _)
PathsBelow(branch, depth) ==
    IF depth = 0 THEN {[keys |-> <<>>, value |-> branch]}
    ELSE UNION {{[keys |-> <<k>> \o p.keys, value |-> p.value] :
                    p \in PathsBelow(branch[k], depth - 1)} : k \in DOMAIN branch}

TreePaths(tree, features) ==
    IF features = <<>> /\ tree = EmptyBranch THEN {}
    ELSE PathsBelow(tree, Len(features))

PathMatches(path, ns, features) ==
    \A i \in DOMAIN features : path.keys[i] = None \/ path.keys[i] = ns[features[i]]

PathLastExact(path) ==
    IF \A i \in DOMAIN path.keys : path.keys[i] = None THEN -1
    ELSE (CHOOSE i \in DOMAIN path.keys :
             /\ path.keys[i] # None
             /\ \A k \in DOMAIN path.keys : k > i => path.keys[k] = None) - 1

PathPreferred(p1, p2) ==
    \/ PathLastExact(p1) > PathLastExact(p2)
    \/ /\ PathLastExact(p1) = PathLastExact(p2)
       /\ \E i \in DOMAIN p1.keys :
             /\ p1.keys[i] # None /\ p2.keys[i] = None
             /\ \A k \in 1..(i - 1) : (p1.keys[k] = None) <=> (p2.keys[k] = None)

MatchingPaths(tree, ns, features) ==
    {p \in TreePaths(tree, features) : PathMatches(p, ns, features)}

BestPath(tree, ns, features) ==
    CHOOSE p \in MatchingPaths(tree, ns, features) :
        \A o \in MatchingPaths(tree, ns, features) \ {p} : PathPreferred(p, o)

InstalledTree == heap[last_ruleset.root]

\* what get is to return for these keyword arguments, in the current state
ClaimedGet(contexts) ==
    LET ns == context_namespace(const_context_features, contexts)
    IN IF last_ruleset # Null
          /\ MatchingPaths(InstalledTree, ns, configurable_features) # {}
       THEN BestPath(InstalledTree, ns, configurable_features).value
       ELSE IF server_default_value # Null THEN server_default_value
       ELSE default_value

\* an uninterrupted get, with configured features only and, once a tree is
\* installed, a value for each of them
IsGetCall ==
    /\ get_pc = "idle" /\ get_pc' = "done"
    /\ redundant_keys(get_contexts', configurable_features) = {}
    /\ last_ruleset # Null =>
          Total(context_namespace(const_context_features, get_contexts'),
                configurable_features)

(***************************************************************************)
(* C2: Setting.get with configured features only returns the value of the  *)
(* matching rule when the installed tree has a match, and otherwise (no    *)
(* tree ever installed, or no match) the server default if one was set,    *)
(* else the declared default; so the declared default before anything came *)
(* from the service, and with {region=eu}->100 installed and default 50,   *)
(* 100 for region=eu and 50 for region=us.                                 *)
(***************************************************************************)
C2_GetReturnsMatchOrDefault ==
    [][IsGetCall =>
         /\ get_result' = ClaimedGet(get_contexts')
         /\ (last_ruleset = Null /\ server_default_value = Null) =>
               get_result' = default_value
         /\ ( /\ configurable_features = <<"region">>
              /\ last_ruleset # Null
              /\ InstalledTree = collate_rules(<<"region">>,
                                    kept_rules(ReplyEu.rules, <<"region">>))
              /\ server_default_value = Leaf(50) ) =>
               /\ get_contexts' = [k \in {"region"} |-> "eu"] => get_result' = Leaf(100)
               /\ get_contexts' = [k \in {"region"} |-> "us"] => get_result' = Leaf(50)
      ]_vars

\* the setting has no default: none declared, none from the service
NoDefault == default_value = Null /\ server_default_value = Null

\* no tree is installed, or no rule of the installed tree matches
NoRuleMatches(contexts) ==
    \/ last_ruleset = Null
    \/ MatchingPaths(InstalledTree,
                     context_namespace(const_context_features, contexts),
                     configurable_features) = {}

(***************************************************************************)
(* C16: Setting.get raises NoMatchError when no rule matches the context   *)
(* and the setting has no default; so a setting without a default and      *)
(* without rules raises it for every context.                              *)
(***************************************************************************)
C16_GetRaisesNoMatch ==
    [][(IsGetCall /\ NoDefault /\ NoRuleMatches(get_contexts')) =>
          get_result' = NoMatchError]_vars

\* the declaration response of the setting is handled in this step
IsHandleDeclaration == declared = Null /\ declared' # Null

\* the differences of a response that are of the default value and convert
\* into the local type (int)
ConvertingDefaults(response) ==
    {i \in DOMAIN response.differences :
        /\ response.differences[i].attribute = "default_value"
        /\ response.differences[i].latest_value.type = "int"}

(***************************************************************************)
(* C21: handling a declaration response changes the server default of the  *)
(* setting only when the outcome is 'outdated' and a default_value         *)
(* difference converts into the local type, and then the converted value   *)
(* is the server default; for every other outcome, for differences of      *)
(* other attributes and when the conversion fails the server default and   *)
(* the installed rule set are as before, and a get of a setting that has   *)
(* neither then returns the local default.                                 *)
(***************************************************************************)
C21_DeclarationChangesDefaultOnlyWhenOutdated ==
    /\ [][IsHandleDeclaration =>
            /\ server_default_value' =
                  IF /\ declared'.outcome = "outdated"
                     /\ ConvertingDefaults(declared') # {}
                  THEN Leaf(declared'.differences[
                                Latest(ConvertingDefaults(declared'))
                            ].latest_value.json)
                  ELSE server_default_value
            /\ UNCHANGED <<last_ruleset, heap, SettingFields>>]_vars
    /\ [][(IsGetCall /\ declared # Null /\ last_ruleset = Null
            /\ server_default_value = Null) =>
               get_result' = default_value]_vars

\* after an 'upgraded' response with a default_value difference the setting
\* has no server default and get returned the local default
C21_Witness ==
    /\ declared # Null /\ declared.outcome = "upgraded"
    /\ declared.differences # <<>>
    /\ server_default_value = Null /\ last_ruleset = Null
    /\ get_pc = "done" /\ get_result = Leaf(50)

\* a get is called (uninterrupted, or read by read) with a keyword that is not
\* a configurable feature of the setting
IsGetWithUnconfigured ==
    /\ get_pc = "idle" /\ get_pc' # "idle"
    /\ \E k \in DOMAIN get_contexts' : k \notin Range(configurable_features)

(***************************************************************************)
(* C17: Setting.get called with a keyword that is not one of the setting's *)
(* configurable features raises ValueError in every state (a tree          *)
(* installed or not, a default or none), without reading the rule set,     *)
(* without resolving, and without changing the setting.                    *)
(***************************************************************************)
C17_UnconfiguredKeywordRaisesValueError ==
    [][IsGetWithUnconfigured =>
          /\ get_pc' = "done" /\ get_result' = ValueError
          /\ get_ruleset' = Null /\ get_from_rules' = Unset
          /\ UNCHANGED settingVars]_vars

\* ValueError was raised for the keyword "zone", given with a value for every
\* feature, by a setting without a default that has a tree installed
C17_Witness ==
    /\ get_pc = "done" /\ get_result = ValueError
    /\ DOMAIN get_contexts = {"region", "zone"}
    /\ configurable_features = <<"region">>
    /\ last_ruleset # Null /\ default_value = Null

\* an uninterrupted get with configured features only, on a setting with a tree
\* installed, whose context namespace lacks a value for one of the features
IsGetWithMissingFeature ==
    /\ get_pc = "idle" /\ get_pc' = "done"
    /\ DOMAIN get_contexts' \subseteq Range(configurable_features)
    /\ last_ruleset # Null
    /\ ~Total(context_namespace(const_context_features, get_contexts'),
              configurable_features)

(***************************************************************************)
(* C18: with a tree installed, Setting.get raises RuntimeError when the    *)
(* context namespace (the keywords of the caller over the defaults of the  *)
(* client) has no value for a configurable feature of the setting,         *)
(* whatever the rules and whichever the feature; it does not return a      *)
(* default.                                                                *)
(***************************************************************************)
C18_MissingFeatureRaisesRuntimeError ==
    [][IsGetWithMissingFeature => get_result' = RuntimeError]_vars

\* the objects a rule set refers to: the installed one, and the one a get holds
Referenced ==
    {rs.root : rs \in {last_ruleset, get_ruleset} \ {Null}}

\* the root the update is filling is known to the update only
UnderConstructionIsPrivate ==
    upd_pc = "collate" => upd_root \notin Referenced

\* the rule set is replaced by one whose root holds all the rules of the cycle
InstallsCompleteTree ==
    last_ruleset' # last_ruleset =>
        /\ upd_pc = "collate" /\ upd_pc' = "idle"
        /\ last_ruleset'.root = upd_root
        /\ heap'[upd_root] = collate_rules(configurable_features, upd_rules)
        /\ heap' = heap

\* an object a rule set refers to stays as it is
NoInPlaceMutation ==
    \A id \in Referenced : heap'[id] = heap[id]

\* the trees the replies of the service collate to
CompleteTrees ==
    {collate_rules(configurable_features,
                   kept_rules(reply.rules, configurable_features)) :
        reply \in Replies(configurable_features)}

\* resolve walks the rule set the get read, which holds a complete tree and is
\* the installed one or the one installed before it
ResolvesCompleteTree ==
    (get_pc = "resolve" /\ get_pc' # "resolve") =>
        /\ heap[get_ruleset.root] \in CompleteTrees
        /\ get_ruleset.root \in 1..last_ruleset.root
        /\ get_from_rules' =
              from_rules_of([client |-> "client", root |-> 1],
                            <<heap[get_ruleset.root]>>, get_contexts,
                            const_context_features, configurable_features)

(***************************************************************************)
(* C3: with gets interleaved read by read with update cycles, every get    *)
(* resolves against a complete tree, the one installed before the cycle or *)
(* the one the cycle built: update fills a root no rule set refers to,     *)
(* installs it by one replacement of last_ruleset once all the rules of    *)
(* the cycle are in it, and no tree a rule set refers to changes.          *)
(***************************************************************************)
C3_GetSeesCompleteTree ==
    /\ []UnderConstructionIsPrivate
    /\ [][InstallsCompleteTree /\ NoInPlaceMutation /\ ResolvesCompleteTree]_vars

\* a get holds the installed rule set while an update has put some, not all, of
\* its rules into a new root
C3_Witness ==
    /\ get_pc = "resolve" /\ get_ruleset = last_ruleset
    /\ upd_pc = "collate" /\ 1 < upd_n /\ upd_n <= Len(upd_rules)
    /\ heap[upd_root] # heap[get_ruleset.root]

\* a rule of a reply that names configurable features only and whose value is
\* of the local type (int)
IsGoodRule(rule_mapping) ==
    /\ \A j \in DOMAIN rule_mapping.context_features :
          \E i \in DOMAIN configurable_features :
             configurable_features[i] = rule_mapping.context_features[j][1]
    /\ rule_mapping.value.type = "int"

\* the good rules of a reply, in the order of the reply, as collate_rules
\* takes them
GoodRules(reply) ==
    LET good == SelectSeq(reply.rules, IsGoodRule)
    IN [i \in DOMAIN good |->
           [conditions |-> good[i].context_features,
            value |-> Leaf(good[i].value.json)]]

\* a reply is taken in: the rules that are not good are dropped one by one, and
\* a default that does not convert leaves the server default as it was
DropsBadItemsOnly ==
    (upd_pc = "locked" /\ upd_pc' = "update") =>
        /\ upd_rules' = GoodRules(upd_reply')
        /\ server_default_value' =
              IF upd_reply'.default_value.type = "int"
              THEN Leaf(upd_reply'.default_value.json)
              ELSE server_default_value

\* the tree installed holds the good rules of the reply
InstallsGoodRules ==
    last_ruleset' # last_ruleset =>
        heap'[last_ruleset'.root] =
            collate_rules(configurable_features, GoodRules(upd_reply))

\* the update ends without a tree installed only when the good rules themselves
\* do not collate
OnlyGoodRulesAbort ==
    (upd_pc \in {"update", "collate"} /\ upd_pc' = "idle"
     /\ last_ruleset' = last_ruleset) =>
        IsRaised(collate_rules(configurable_features, GoodRules(upd_reply)))

(***************************************************************************)
(* C22: when a reply is applied to a setting, each rule naming a feature   *)
(* that is not configurable and each rule whose value does not convert is  *)
(* dropped by itself, the other rules of the reply are collated into the   *)
(* tree that is installed, and a default that does not convert leaves the  *)
(* server default as it was while the rules are installed all the same;    *)
(* none of these ends the update.                                          *)
(***************************************************************************)
C22_BadItemsAreDroppedIndividually ==
    [][DropsBadItemsOnly /\ InstallsGoodRules /\ OnlyGoodRulesAbort]_vars

\* the reply with two good rules, a rule on the feature zone, a rule with a
\* string for a value and a string for a default was installed: the tree holds
\* the two good rules and the server default is the one of the reply before
C22_Witness ==
    /\ configurable_features = <<"region", "tier">>
    /\ upd_pc = "idle" /\ upd_reply # Null /\ Len(upd_reply.rules) = 4
    /\ last_ruleset # Null /\ last_ruleset.root = upd_root
    /\ InstalledTree = [k \in {"eu", None} |->
                           IF k = "eu" THEN [j \in {None} |-> Leaf(100)]
                           ELSE [j \in {"gold"} |-> Leaf(300)]]
    /\ server_default_value = Leaf(80)

\* the update loop replaces the rule set or the server default of the setting
\* (the declaration loop is left aside: declared does not change)
UpdateLoopReplaces ==
    /\ declared' = declared
    /\ \/ last_ruleset' # last_ruleset
       \/ server_default_value' # server_default_value

\* a request of the update cycle is in flight
RequestInFlight == upd_pc = "query"

\* the update is between taking a reply in and installing its tree
CollateAndSwap == upd_pc \in {"locked", "update", "collate"}

(***************************************************************************)
(* C23: the update loop replaces the rule set and the server default of a  *)
(* setting only with the client's modification lock held, before and after *)
(* the step up to the release that ends the swap; the lock is held exactly *)
(* from the arrival of the reply to the end of the collate-and-swap step   *)
(* (or the exception that ends it), so never while the request of the      *)
(* cycle is in flight, and it is taken only when it is free.               *)
(***************************************************************************)
C23_SwapsUnderLockNoNetwork ==
    /\ [][UpdateLoopReplaces =>
            modification_lock /\ (modification_lock' \/ upd_pc' = "idle")]_vars
    /\ [](modification_lock <=> CollateAndSwap)
    /\ [](RequestInFlight => ~modification_lock)
    /\ [][(modification_lock' /\ ~modification_lock) => upd_pc = "query"]_vars

\* a second cycle has its request in flight, with the tree of the first
\* installed and the lock free
C23_Witness ==
    /\ RequestInFlight /\ ~modification_lock
    /\ upd_count = 1 /\ last_ruleset # Null /\ server_default_value # Null

(***************************************************************************)
(* SpecClient: one client, AsyncHeksherClient or ThreadHeksherClient, from *)
(* the placeholder it takes over from to its shutdown: the application     *)
(* (set_as_main, reload, close / aclose, Setting(...), Setting.get), the   *)
(* declaration loop and the update loop.  A coroutine of the async client  *)
(* runs from one await to the next without interruption, so an action of   *)
(* the async client is the code between two awaits; the threads of the     *)
(* threaded client interleave statement by statement.                      *)
(*                                                                         *)
(* The names add_settings / add_undeclared (Setting.__init__,              *)
(* TemporaryClient, V1APIClient) and _context_filters /                    *)
(* _context_feature_options (thread_client.py) are two spellings of one    *)
(* operation each and are modelled as such.                                *)
(***************************************************************************)
MaxCycles == 3
MaxReloads == 2

SettingNames == <<"s1", "s2">>

HTTPError == Raised("HTTPError")
KeyError == Raised("KeyError")
InvalidStateError == Raised("InvalidStateError")
AttributeError == Raised("AttributeError")

\* a call that returned
Returned == [returned |-> TRUE]

\* the future _update_error: awaited, or done with an exception
Pending == [future |-> "pending"]
Failed(e) == [future |-> "exception", exception |-> e]

\* what the service has for GET /api/v1/context_features
ServiceFeatures == <<"a", "b">>

NewSetting == [last_ruleset |-> 0, server_default_value |-> 0]

\* the orders in which a set can be iterated
Orders(S) ==
    {q \in [1..Cardinality(S) -> S] : \A i, j \in DOMAIN q : i # j => q[i] # q[j]}

\* the names in the order of SettingNames
RECURSIVE Sorted(_, _)
Sorted(names, from) ==
    IF from > Len(SettingNames) THEN <<>>
    ELSE (IF SettingNames[from] \in names THEN <<SettingNames[from]>> ELSE <<>>)
         \o Sorted(names, from + 1)

(***************************************************************************)
(* The responses to a query.  A substantive reply has an entry for each    *)
(* setting of the query; the rules of an entry are well formed or have     *)
(* conditions collate_rules rejects.                                       *)
(***************************************************************************)
Entry(name, malformed) == [name |-> name, malformed |-> malformed]

EntryLists(names) ==
    LET order == Sorted(names, 1)
    IN {[i \in DOMAIN order |-> Entry(order[i], bad /\ i = Len(order))] :
           bad \in BOOLEAN}

QueryResponse(status, version, entries) ==
    [status |-> status, version |-> version, entries |-> entries]

Responses(client_kind, names, version) ==
    {QueryResponse("unreachable", 0, <<>>), QueryResponse("error", 0, <<>>)}
    \cup (IF client_kind = "async" /\ version > 1
          THEN {QueryResponse("not_modified", 0, <<>>)} ELSE {})
    \cup {QueryResponse("ok", version, entries) : entries \in EntryLists(names)}

\* _update_settings_from_query: the settings after the entries, and the
\* exception that ended it, if any
RECURSIVE update_settings_from_query(_, _, _, _)
update_settings_from_query(objects, entries, tracked, version) ==
    IF entries = <<>> THEN [settings |-> objects, raised |-> Null]
    ELSE LET name == Head(entries).name
             with_default ==
                 [objects EXCEPT ![name].server_default_value = version]
         IN IF name \notin tracked
            THEN [settings |-> objects, raised |-> KeyError]
            ELSE IF Head(entries).malformed
            THEN [settings |-> with_default, raised |-> AssertionError]
            ELSE update_settings_from_query(
                     [with_default EXCEPT ![name].last_ruleset = version],
                     Tail(entries), tracked, version)

\* update() as it would be were the settings reset when the query fails
update_ClearOnFailure(client_kind, objects, reply, tracked) ==
    IF reply.status \in {"unreachable", "error"}
    THEN [settings |-> [n \in DOMAIN objects |->
                          IF n \in tracked THEN NewSetting ELSE objects[n]],
          raised |-> HTTPError, replied |-> FALSE]
    ELSE IF reply.status = "not_modified"
    THEN [settings |-> objects, raised |-> Null, replied |-> FALSE]
    ELSE LET applied == update_settings_from_query(objects, reply.entries,
                                                   tracked, reply.version)
         IN [settings |-> applied.settings, raised |-> applied.raised,
             replied |-> TRUE]

\* update(): the settings after the response, whether a reply was applied, and
\* the exception update() raised, if any
update(client_kind, objects, reply, tracked) ==
    IF reply.status \in {"unreachable", "error"}
    THEN [settings |-> objects, raised |-> HTTPError, replied |-> FALSE]
    ELSE IF reply.status = "not_modified"
    THEN [settings |-> objects, raised |-> Null, replied |-> FALSE]
    ELSE LET applied == update_settings_from_query(objects, reply.entries,
                                                   tracked, reply.version)
         IN [settings |-> applied.settings, raised |-> applied.raised,
             replied |-> TRUE]

elsewhere == <<treeVars, settingVars, getVars, updVars, handoverVars>>

ClientInit ==
    /\ TreeUnused /\ SettingUnused /\ HandoverUnused
    /\ kind \in {"async", "thread"}
    /\ Main = "temp" /\ temp_undeclared = {}
    /\ settings = EmptyBranch
    /\ undeclared = <<>> /\ unfinished_tasks = 0
    /\ tracked_settings = {} /\ client_context_features = <<"a">>
    /\ update_event = FALSE /\ manual_update = FALSE /\ keep_going = TRUE
    /\ update_error = Null /\ etag = 0 /\ last_cache_time = 0
    /\ declaration_pc = "none" /\ declaring = None /\ startup_backlog = {}
    /\ declaration_log = EmptyBranch
    /\ update_pc = "none" /\ queried = {} /\ update_response = Null
    /\ cycles = 0
    /\ app_pc = "init" /\ app_call = "" /\ app_result = Unset /\ reloads = 0
    /\ reload_settings = {}

\* aclose has been called and has not reached its first await: aclose of the
\* mixin is empty, so the update task is cancelled (line 221) before any other
\* task runs
AsyncClosing == kind = "async" /\ app_pc = "close_update"

\* Setting.__init__: the new setting registers with the main client
CreateSetting ==
    /\ ~AsyncClosing
    /\ \E name \in Range(SettingNames) \ DOMAIN settings :
          /\ settings' = [n \in DOMAIN settings \cup {name} |->
                             IF n = name THEN NewSetting ELSE settings[n]]
          /\ IF Main = "temp"
             THEN /\ temp_undeclared' = temp_undeclared \cup {name}
                  /\ UNCHANGED queueVars
             ELSE /\ undeclared' = Append(undeclared, name)
                  /\ unfinished_tasks' = unfinished_tasks + 1
                  /\ UNCHANGED temp_undeclared
    /\ UNCHANGED <<kind, Main, clientVars, declarationVars, updateVars, appVars>>
    /\ UNCHANGED elsewhere

\* Setting.get: its result is read off the setting
Get ==
    /\ app_pc = "main"
    /\ \E name \in DOMAIN settings :
          app_result' = [value |-> IF settings[name].last_ruleset # 0
                                   THEN <<"rules", settings[name].last_ruleset>>
                                   ELSE <<"default", settings[name].server_default_value>>]
    /\ app_call' = "get"
    /\ UNCHANGED <<app_pc, reloads, reload_settings>>
    /\ UNCHANGED <<mainVars, settings, queueVars, clientVars, declarationVars,
                   updateVars>>
    /\ UNCHANGED elsewhere

\* set_as_main, to the request for the context features: _set_as_main takes
\* the settings of the placeholder and the main slot
SetAsMain ==
    /\ app_pc = "init" /\ Main = "temp"
    /\ \E order \in Orders(temp_undeclared) : undeclared' = undeclared \o order
    /\ unfinished_tasks' = unfinished_tasks + Cardinality(temp_undeclared)
    /\ Main' = "client"
    /\ app_pc' = "context_features" /\ app_call' = "set_as_main"
    /\ app_result' = Unset
    /\ UNCHANGED <<kind, temp_undeclared, settings, reloads, reload_settings>>
    /\ UNCHANGED <<clientVars, declarationVars, updateVars>>
    /\ UNCHANGED elsewhere

\* set_as_main, from the answer on the context features to the wait for the
\* declarations: the declaration loop is started
ContextFeaturesReply ==
    /\ app_pc = "context_features"
    /\ \E answer \in {"unreachable", "same", "different"} :
          client_context_features' =
              IF kind = "thread" /\ answer = "different"
              THEN ServiceFeatures ELSE client_context_features
    /\ declaration_pc' = "get"
    /\ startup_backlog' = Range(undeclared)
    /\ UNCHANGED declaration_log
    /\ update_error' = IF kind = "async" THEN Pending ELSE update_error
    /\ app_pc' = "join_declared"
    /\ UNCHANGED <<app_call, app_result, reloads, reload_settings, declaring>>
    /\ UNCHANGED <<tracked_settings, update_event, manual_update, keep_going,
                   etag, last_cache_time>>
    /\ UNCHANGED <<mainVars, settings, queueVars, updateVars>>
    /\ UNCHANGED elsewhere

\* _undeclared.join() as it would be did it not wait
join_NoWait == TRUE

\* _undeclared.join() returns: every task of the queue is done
join == unfinished_tasks = 0

(***************************************************************************)
(* AsyncHeksherClient: set_as_main, reload, aclose.                        *)
(***************************************************************************)
\* reload, lines 212-216: the events, and the task that waits on the update
\* error; that task is done at once when the future is done already
AsyncReloadTrigger ==
    /\ update_event' = FALSE
    /\ manual_update' = TRUE
    /\ update_error' = IF update_error = Null THEN Pending ELSE update_error
    /\ app_pc' = "reload_wait"

\* wait_with_err_sentinel(undeclared_task, ...) returns and cancels the wait
\* on the update error
AsyncDeclaredJoined ==
    /\ kind = "async" /\ app_pc = "join_declared"
    /\ join
    /\ update_error' = Null
    /\ app_pc' = "start_update"
    /\ UNCHANGED <<app_call, app_result, reloads, reload_settings>>
    /\ UNCHANGED <<tracked_settings, client_context_features, update_event,
                   manual_update, keep_going, etag, last_cache_time>>
    /\ UNCHANGED <<mainVars, settings, queueVars, declarationVars, updateVars>>
    /\ UNCHANGED elsewhere

\* set_as_main, lines 201-202: the update task is created and reload is
\* called, which goes on to its wait unless it has to wait for the queue
AsyncStartUpdate ==
    /\ kind = "async" /\ app_pc = "start_update"
    /\ update_pc' = "start"
    /\ reload_settings' = DOMAIN settings
    /\ IF join THEN AsyncReloadTrigger
       ELSE /\ app_pc' = "reload_join"
            /\ UNCHANGED <<update_event, manual_update, update_error>>
    /\ UNCHANGED <<app_call, app_result, reloads>>
    /\ UNCHANGED <<tracked_settings, client_context_features, keep_going, etag,
                   last_cache_time>>
    /\ UNCHANGED <<queried, update_response, cycles>>
    /\ UNCHANGED <<mainVars, settings, queueVars, declarationVars>>
    /\ UNCHANGED elsewhere

\* the application calls reload
AsyncReload ==
    /\ kind = "async" /\ app_pc = "main"
    /\ reloads < MaxReloads
    /\ reloads' = reloads + 1
    /\ reload_settings' = DOMAIN settings
    /\ app_call' = "reload" /\ app_result' = Unset
    /\ IF join THEN AsyncReloadTrigger
       ELSE /\ app_pc' = "reload_join"
            /\ UNCHANGED <<update_event, manual_update, update_error>>
    /\ UNCHANGED <<tracked_settings, client_context_features, keep_going, etag,
                   last_cache_time>>
    /\ UNCHANGED <<mainVars, settings, queueVars, declarationVars, updateVars>>
    /\ UNCHANGED elsewhere

\* reload, line 211: the queue is joined
AsyncReloadJoin ==
    /\ kind = "async" /\ app_pc = "reload_join"
    /\ join
    /\ AsyncReloadTrigger
    /\ UNCHANGED <<app_call, app_result, reloads, reload_settings>>
    /\ UNCHANGED <<tracked_settings, client_context_features, keep_going, etag,
                   last_cache_time>>
    /\ UNCHANGED <<mainVars, settings, queueVars, declarationVars, updateVars>>
    /\ UNCHANGED elsewhere

\* a task reload waits on is done: the task that waits on the update error,
\* or else the wait on the update event
AsyncReloadWoken ==
    kind = "async" /\ app_pc = "reload_wait"
    /\ (update_event \/ update_error \notin {Null, Pending})

\* wait_with_err_sentinel in reload returns or raises; set_as_main closes the
\* client before it raises on
AsyncReloadReturn ==
    /\ AsyncReloadWoken
    /\ IF update_error \notin {Null, Pending}
       THEN /\ app_result' = update_error.exception
            /\ app_pc' = IF app_call = "set_as_main" THEN "close_update"
                         ELSE "main"
            /\ UNCHANGED update_error
       ELSE /\ app_result' = Returned
            /\ app_pc' = "main"
            /\ update_error' = Null
    /\ reload_settings' = {}
    /\ UNCHANGED <<app_call, reloads>>
    /\ UNCHANGED <<tracked_settings, client_context_features, update_event,
                   manual_update, keep_going, etag, last_cache_time>>
    /\ UNCHANGED <<mainVars, settings, queueVars, declarationVars, updateVars>>
    /\ UNCHANGED elsewhere

\* the application calls aclose: on a client that is running, on one that was
\* never made main, or on one that was closed before
AsyncClose ==
    /\ kind = "async" /\ app_pc \in {"init", "main", "closed"}
    /\ app_call' = "aclose" /\ app_result' = Unset
    /\ app_pc' = "close_update"
    /\ UNCHANGED <<reloads, reload_settings>>
    /\ UNCHANGED <<mainVars, settings, queueVars, clientVars, declarationVars,
                   updateVars>>
    /\ UNCHANGED elsewhere

\* aclose, lines 220-226: the update task is cancelled and awaited; a task
\* that ended with an exception raises it here
AsyncCloseUpdate ==
    /\ kind = "async" /\ app_pc = "close_update"
    /\ IF update_pc = "dead"
       THEN /\ app_result' = InvalidStateError
            /\ app_pc' = "closed"
            /\ UNCHANGED update_pc
       ELSE /\ update_pc' = IF update_pc = "none" THEN "none" ELSE "cancelled"
            /\ app_pc' = "close_declaration"
            /\ UNCHANGED app_result
    /\ UNCHANGED <<app_call, reloads, reload_settings, queried, update_response, cycles>>
    /\ UNCHANGED <<mainVars, settings, queueVars, clientVars, declarationVars>>
    /\ UNCHANGED elsewhere

\* aclose, lines 227-234: the declaration task is cancelled; cancelled with a
\* setting taken, it marks the task of the queue done
AsyncCloseDeclaration ==
    /\ kind = "async" /\ app_pc = "close_declaration"
    /\ declaration_pc' = IF declaration_pc = "none" THEN "none" ELSE "cancelled"
    /\ declaring' = None
    /\ unfinished_tasks' = IF declaring # None THEN unfinished_tasks - 1
                           ELSE unfinished_tasks
    /\ app_result' = IF IsRaised(app_result) THEN app_result ELSE Returned
    /\ app_pc' = "closed"
    /\ UNCHANGED <<app_call, reloads, reload_settings, undeclared, startup_backlog,
                   declaration_log>>
    /\ UNCHANGED <<mainVars, settings, clientVars, updateVars>>
    /\ UNCHANGED elsewhere

(***************************************************************************)
(* ThreadHeksherClient: set_as_main, reload, close.                        *)
(***************************************************************************)
\* set_as_main, lines 171-176: the queue is joined, the update thread started
ThreadDeclaredJoined ==
    /\ kind = "thread" /\ app_pc = "join_declared"
    /\ join
    /\ update_pc' = "start"
    /\ reload_settings' = DOMAIN settings
    /\ app_pc' = "reload_join"
    /\ UNCHANGED <<app_call, app_result, reloads>>
    /\ UNCHANGED <<queried, update_response, cycles>>
    /\ UNCHANGED <<mainVars, settings, queueVars, clientVars, declarationVars>>
    /\ UNCHANGED elsewhere

\* the application calls reload
ThreadReload ==
    /\ kind = "thread" /\ app_pc = "main"
    /\ reloads < MaxReloads
    /\ reloads' = reloads + 1
    /\ reload_settings' = DOMAIN settings
    /\ app_call' = "reload" /\ app_result' = Unset
    /\ app_pc' = "reload_join"
    /\ UNCHANGED <<mainVars, settings, queueVars, clientVars, declarationVars,
                   updateVars>>
    /\ UNCHANGED elsewhere

\* reload, line 182
ThreadReloadJoin ==
    /\ kind = "thread" /\ app_pc = "reload_join"
    /\ join
    /\ app_pc' = "reload_clear"
    /\ UNCHANGED <<app_call, app_result, reloads, reload_settings>>
    /\ UNCHANGED <<mainVars, settings, queueVars, clientVars, declarationVars,
                   updateVars>>
    /\ UNCHANGED elsewhere

\* reload, line 183
ThreadReloadClear ==
    /\ kind = "thread" /\ app_pc = "reload_clear"
    /\ update_event' = FALSE
    /\ app_pc' = "reload_set"
    /\ UNCHANGED <<app_call, app_result, reloads, reload_settings>>
    /\ UNCHANGED <<tracked_settings, client_context_features, manual_update,
                   keep_going, update_error, etag, last_cache_time>>
    /\ UNCHANGED <<mainVars, settings, queueVars, declarationVars, updateVars>>
    /\ UNCHANGED elsewhere

\* reload, line 184
ThreadReloadSet ==
    /\ kind = "thread" /\ app_pc = "reload_set"
    /\ manual_update' = TRUE
    /\ app_pc' = "reload_wait"
    /\ UNCHANGED <<app_call, app_result, reloads, reload_settings>>
    /\ UNCHANGED <<tracked_settings, client_context_features, update_event,
                   keep_going, update_error, etag, last_cache_time>>
    /\ UNCHANGED <<mainVars, settings, queueVars, declarationVars, updateVars>>
    /\ UNCHANGED elsewhere

\* reload as it would be did it raise the failure of the cycle it waited for
ThreadReloadReturn_RaiseFailure ==
    /\ kind = "thread" /\ app_pc = "reload_wait"
    /\ update_event
    /\ app_result' = IF update_response # Null
                        /\ update_response.status \in {"unreachable", "error"}
                     THEN HTTPError ELSE Returned
    /\ app_pc' = "main"
    /\ reload_settings' = {}
    /\ UNCHANGED <<app_call, reloads>>
    /\ UNCHANGED <<mainVars, settings, queueVars, clientVars, declarationVars,
                   updateVars>>
    /\ UNCHANGED elsewhere

\* reload, line 185: the update event is set
ThreadReloadReturn ==
    /\ kind = "thread" /\ app_pc = "reload_wait"
    /\ update_event
    /\ app_result' = Returned
    /\ app_pc' = "main"
    /\ reload_settings' = {}
    /\ UNCHANGED <<app_call, reloads>>
    /\ UNCHANGED <<mainVars, settings, queueVars, clientVars, declarationVars,
                   updateVars>>
    /\ UNCHANGED elsewhere

\* close, line 189: on a client that is running, on one that was never made
\* main, or on one that was closed before
ThreadClose ==
    /\ kind = "thread" /\ app_pc \in {"init", "main", "closed"}
    /\ app_call' = "close" /\ app_result' = Unset
    /\ keep_going' = FALSE
    /\ app_pc' = "close_set"
    /\ UNCHANGED <<reloads, reload_settings>>
    /\ UNCHANGED <<tracked_settings, client_context_features, update_event,
                   manual_update, update_error, etag, last_cache_time>>
    /\ UNCHANGED <<mainVars, settings, queueVars, declarationVars, updateVars>>
    /\ UNCHANGED elsewhere

\* close, line 190
ThreadCloseSet ==
    /\ kind = "thread" /\ app_pc = "close_set"
    /\ manual_update' = TRUE
    /\ app_pc' = "close_join_update"
    /\ UNCHANGED <<app_call, app_result, reloads, reload_settings>>
    /\ UNCHANGED <<tracked_settings, client_context_features, update_event,
                   keep_going, update_error, etag, last_cache_time>>
    /\ UNCHANGED <<mainVars, settings, queueVars, declarationVars, updateVars>>
    /\ UNCHANGED elsewhere

\* close, line 191: the update thread has ended; _update_thread is None when
\* the thread was never started, and None has no join
ThreadCloseJoinUpdate ==
    /\ kind = "thread" /\ app_pc = "close_join_update"
    /\ IF update_pc = "none"
       THEN app_result' = AttributeError /\ app_pc' = "closed"
       ELSE /\ update_pc = "ended"
            /\ app_pc' = "close_join_declaration"
            /\ UNCHANGED app_result
    /\ UNCHANGED <<app_call, reloads, reload_settings>>
    /\ UNCHANGED <<mainVars, settings, queueVars, clientVars, declarationVars,
                   updateVars>>
    /\ UNCHANGED elsewhere

\* close, line 192: the declaration thread has ended
ThreadCloseJoinDeclaration ==
    /\ kind = "thread" /\ app_pc = "close_join_declaration"
    /\ declaration_pc = "ended"
    /\ app_result' = Returned
    /\ app_pc' = "closed"
    /\ UNCHANGED <<app_call, reloads, reload_settings>>
    /\ UNCHANGED <<mainVars, settings, queueVars, clientVars, declarationVars,
                   updateVars>>
    /\ UNCHANGED elsewhere

(***************************************************************************)
(* The declaration loop (_declaration_loop, _declare_loop).                *)
(***************************************************************************)
\* what becomes of a declaration: the request fails, the service answers with
\* an error other than 409, with something that is not JSON, with an outcome,
\* or with the status 409 and a JSON body ("conflict")
DeclarationOutcomes ==
    {"unreachable", "error", "not_json", "created", "outdated", "conflict"}

\* what the client logs of a declaration: an error for the status 409
\* ("conflict when declaring setting"), an error or a warning for a request
\* that failed, another error status or a body that is not JSON
LogOf(outcome) ==
    CASE outcome = "conflict" -> "conflict"
      [] outcome \in {"unreachable", "error", "not_json"} -> "failed"
      [] OTHER -> "declared"

\* the log after the declaration of a setting ended with an outcome
Logged(log, name, outcome) ==
    [n \in DOMAIN log \cup {name} |->
        IF n = name THEN LogOf(outcome) ELSE log[n]]

\* the outcomes after which the setting would be tracked did the client track
\* it whenever the service answered, JSON or not
IsTracked_Answered(outcome) == outcome \notin {"unreachable", "error"}

\* _handle_declaration_response: the outcomes after which the setting is tracked
IsTracked(outcome) == outcome \in {"created", "outdated", "conflict"}

\* the server default an outdated declaration comes back with
DeclaredDefault == -1

\* a setting is taken off the queue
DeclareTake ==
    /\ declaration_pc = "get"
    /\ ~AsyncClosing
    /\ kind = "thread" => keep_going
    /\ undeclared # <<>>
    /\ declaring' = Head(undeclared)
    /\ undeclared' = Tail(undeclared)
    /\ declaration_pc' = "post"
    /\ UNCHANGED <<unfinished_tasks, startup_backlog, declaration_log>>
    /\ UNCHANGED <<mainVars, settings, clientVars, updateVars, appVars>>
    /\ UNCHANGED elsewhere

\* the declaration loop as it would be did it put a setting whose declaration
\* failed back on the queue
DeclareResponse_Retry ==
    /\ declaration_pc = "post"
    /\ ~AsyncClosing
    /\ \E outcome \in DeclarationOutcomes :
          /\ tracked_settings' = IF IsTracked(outcome)
                                 THEN tracked_settings \cup {declaring}
                                 ELSE tracked_settings
          /\ settings' = IF outcome = "outdated"
                         THEN [settings EXCEPT
                                  ![declaring].server_default_value = DeclaredDefault]
                         ELSE settings
          /\ declaration_log' = Logged(declaration_log, declaring, outcome)
          /\ undeclared' = IF IsTracked(outcome) THEN undeclared
                           ELSE Append(undeclared, declaring)
          /\ unfinished_tasks' = IF IsTracked(outcome) THEN unfinished_tasks - 1
                                 ELSE unfinished_tasks
    /\ declaring' = None
    /\ declaration_pc' = "get"
    /\ UNCHANGED startup_backlog
    /\ UNCHANGED <<client_context_features, update_event, manual_update,
                   keep_going, update_error, etag, last_cache_time>>
    /\ UNCHANGED <<mainVars, updateVars, appVars>>
    /\ UNCHANGED elsewhere

\* the declaration was answered, or failed: the response is handled, and the
\* task of the queue is done whatever happened
DeclareResponse ==
    /\ declaration_pc = "post"
    /\ ~AsyncClosing
    /\ \E outcome \in DeclarationOutcomes :
          /\ tracked_settings' = IF IsTracked(outcome)
                                 THEN tracked_settings \cup {declaring}
                                 ELSE tracked_settings
          /\ settings' = IF outcome = "outdated"
                         THEN [settings EXCEPT
                                  ![declaring].server_default_value = DeclaredDefault]
                         ELSE settings
          /\ declaration_log' = Logged(declaration_log, declaring, outcome)
    /\ unfinished_tasks' = unfinished_tasks - 1
    /\ declaring' = None
    /\ declaration_pc' = "get"
    /\ UNCHANGED <<undeclared, startup_backlog>>
    /\ UNCHANGED <<client_context_features, update_event, manual_update,
                   keep_going, update_error, etag, last_cache_time>>
    /\ UNCHANGED <<mainVars, updateVars, appVars>>
    /\ UNCHANGED elsewhere

\* _declare_loop, line 97: while self._keep_going
ThreadDeclareEnd ==
    /\ kind = "thread" /\ declaration_pc = "get"
    /\ ~keep_going
    /\ declaration_pc' = "ended"
    /\ UNCHANGED <<declaring, startup_backlog, declaration_log>>
    /\ UNCHANGED <<mainVars, settings, queueVars, clientVars, updateVars, appVars>>
    /\ UNCHANGED elsewhere

(***************************************************************************)
(* The update loop of the async client (_update_loop).                     *)
(***************************************************************************)
\* the query is sent, first or after the wait on _manual_update has ended (by
\* the event or by the timeout); a task that was woken runs before that
AsyncUpdateQuery ==
    /\ kind = "async" /\ update_pc \in {"start", "wait"}
    /\ ~AsyncReloadWoken /\ ~AsyncClosing
    /\ cycles < MaxCycles
    /\ cycles' = cycles + 1
    /\ queried' = tracked_settings
    /\ update_pc' = "query"
    /\ UNCHANGED update_response
    /\ UNCHANGED <<mainVars, settings, queueVars, clientVars, declarationVars,
                   appVars>>
    /\ UNCHANGED elsewhere

\* lines 114-148: the response is handled, the update event set, and the loop
\* goes to wait; set_exception on a future that is done raises out of the loop
AsyncUpdateReply ==
    /\ kind = "async" /\ update_pc = "query"
    /\ ~AsyncClosing
    /\ \E reply \in Responses(kind, queried, cycles) :
          LET out == update(kind, settings, reply, tracked_settings)
              dead == out.raised # Null /\ update_error \notin {Null, Pending}
          IN /\ update_response' = reply
             /\ settings' = out.settings
             /\ etag' = IF reply.status = "ok" THEN reply.version ELSE etag
             /\ update_error' = IF out.raised # Null /\ update_error = Pending
                                THEN Failed(out.raised) ELSE update_error
             /\ update_pc' = IF dead THEN "dead" ELSE "wait"
             /\ manual_update' = IF dead THEN manual_update ELSE FALSE
    /\ update_event' = TRUE
    /\ UNCHANGED <<queried, cycles>>
    /\ UNCHANGED <<tracked_settings, client_context_features, keep_going,
                   last_cache_time>>
    /\ UNCHANGED <<mainVars, queueVars, declarationVars, appVars>>
    /\ UNCHANGED elsewhere

(***************************************************************************)
(* The update loop of the threaded client (_update_loop).                  *)
(***************************************************************************)
\* line 138: while self._keep_going, then the query is sent
ThreadUpdateQuery ==
    /\ kind = "thread" /\ update_pc = "start"
    /\ keep_going
    /\ cycles < MaxCycles
    /\ cycles' = cycles + 1
    /\ queried' = tracked_settings
    /\ update_pc' = "query"
    /\ UNCHANGED update_response
    /\ UNCHANGED <<mainVars, settings, queueVars, clientVars, declarationVars,
                   appVars>>
    /\ UNCHANGED elsewhere

\* line 138: the loop ends
ThreadUpdateEnd ==
    /\ kind = "thread" /\ update_pc = "start"
    /\ ~keep_going
    /\ update_pc' = "ended"
    /\ UNCHANGED <<queried, update_response, cycles>>
    /\ UNCHANGED <<mainVars, settings, queueVars, clientVars, declarationVars,
                   appVars>>
    /\ UNCHANGED elsewhere

\* lines 128-144: the response is handled and the update event set
ThreadUpdateReply ==
    /\ kind = "thread" /\ update_pc = "query"
    /\ \E reply \in Responses(kind, queried, cycles) :
          LET out == update(kind, settings, reply, tracked_settings)
          IN /\ update_response' = reply
             /\ settings' = out.settings
             /\ last_cache_time' = IF out.replied /\ out.raised = Null
                                   THEN reply.version ELSE last_cache_time
    /\ update_event' = TRUE
    /\ update_pc' = "clear"
    /\ UNCHANGED <<queried, cycles>>
    /\ UNCHANGED <<tracked_settings, client_context_features, manual_update,
                   keep_going, update_error, etag>>
    /\ UNCHANGED <<mainVars, queueVars, declarationVars, appVars>>
    /\ UNCHANGED elsewhere

\* line 146
ThreadUpdateClear ==
    /\ kind = "thread" /\ update_pc = "clear"
    /\ manual_update' = FALSE
    /\ update_pc' = "wait"
    /\ UNCHANGED <<queried, update_response, cycles>>
    /\ UNCHANGED <<tracked_settings, client_context_features, update_event,
                   keep_going, update_error, etag, last_cache_time>>
    /\ UNCHANGED <<mainVars, settings, queueVars, declarationVars, appVars>>
    /\ UNCHANGED elsewhere

\* line 147: the wait ends, by the event or by the timeout
ThreadUpdateWake ==
    /\ kind = "thread" /\ update_pc = "wait"
    /\ update_pc' = "start"
    /\ UNCHANGED <<queried, update_response, cycles>>
    /\ UNCHANGED <<mainVars, settings, queueVars, clientVars, declarationVars,
                   appVars>>
    /\ UNCHANGED elsewhere

ClientNext ==
    \/ CreateSetting \/ Get \/ SetAsMain \/ ContextFeaturesReply
    \/ AsyncDeclaredJoined \/ AsyncStartUpdate \/ AsyncReload
    \/ AsyncReloadJoin \/ AsyncReloadReturn
    \/ AsyncClose \/ AsyncCloseUpdate \/ AsyncCloseDeclaration
    \/ ThreadDeclaredJoined \/ ThreadReload \/ ThreadReloadJoin
    \/ ThreadReloadClear \/ ThreadReloadSet \/ ThreadReloadReturn
    \/ ThreadClose \/ ThreadCloseSet \/ ThreadCloseJoinUpdate
    \/ ThreadCloseJoinDeclaration
    \/ DeclareTake \/ DeclareResponse \/ ThreadDeclareEnd
    \/ AsyncUpdateQuery \/ AsyncUpdateReply
    \/ ThreadUpdateQuery \/ ThreadUpdateEnd \/ ThreadUpdateReply
    \/ ThreadUpdateClear \/ ThreadUpdateWake

SpecClient == ClientInit /\ [][ClientNext]_vars

(***************************************************************************)
(* SpecDeclaration: the client as in SpecClient, with its loops, the       *)
(* settings created at any time, set_as_main and shutdown, and an          *)
(* application that calls neither reload nor get (neither reads or writes  *)
(* the declaration queue).  The declaration loop is scheduled when a       *)
(* setting is in its queue, and a request it has sent ends, with a         *)
(* response or with an error (the HTTP client has timeouts): weak fairness *)
(* of DeclareTake and DeclareResponse.                                     *)
(***************************************************************************)
DeclarationNext ==
    \/ CreateSetting \/ SetAsMain \/ ContextFeaturesReply
    \/ AsyncDeclaredJoined \/ AsyncStartUpdate
    \/ AsyncReloadJoin \/ AsyncReloadReturn
    \/ AsyncClose \/ AsyncCloseUpdate \/ AsyncCloseDeclaration
    \/ ThreadDeclaredJoined \/ ThreadReloadJoin
    \/ ThreadReloadClear \/ ThreadReloadSet \/ ThreadReloadReturn
    \/ ThreadClose \/ ThreadCloseSet \/ ThreadCloseJoinUpdate
    \/ ThreadCloseJoinDeclaration
    \/ DeclareTake \/ DeclareResponse \/ ThreadDeclareEnd
    \/ AsyncUpdateQuery \/ AsyncUpdateReply
    \/ ThreadUpdateQuery \/ ThreadUpdateEnd \/ ThreadUpdateReply
    \/ ThreadUpdateClear \/ ThreadUpdateWake

SpecDeclaration ==
    /\ ClientInit /\ [][DeclarationNext]_vars
    /\ WF_vars(DeclareTake) /\ WF_vars(DeclareResponse)

\* the declaration of the setting was attempted and its task of the queue done
Attempted(name) == name \notin Range(undeclared) /\ declaring # name

\* the update loop was started (its task created, its thread started)
UpdateLoopStarted == update_pc # "none"

(***************************************************************************)
(* C4: in both clients, set_as_main starts the update loop, and so the     *)
(* loop sends its first query, only after the declaration of every setting *)
(* that was in the queue when the declaration loop was started, those      *)
(* taken over from the placeholder included, has been attempted and marked *)
(* done.                                                                   *)
(***************************************************************************)
C4_FirstQueryAfterStartupDeclarations ==
    (UpdateLoopStarted \/ cycles > 0) =>
        \A name \in startup_backlog \cup temp_undeclared : Attempted(name)

\* the first query is in flight after two start-up declarations, one of which
\* failed
C4_Witness ==
    /\ update_pc = "query" /\ cycles = 1
    /\ startup_backlog = {"s1", "s2"} /\ temp_undeclared = {"s1", "s2"}
    /\ tracked_settings = {"s1"}

\* the update loop handles a response that is a failure of the network step
FailedNetworkStep ==
    /\ update_pc = "query" /\ update_pc' \in {"wait", "clear", "dead"}
    /\ update_response'.status \in {"unreachable", "error"}

(***************************************************************************)
(* C9: an update cycle whose query fails (service unreachable, or an error *)
(* status) leaves the installed rules and the server default of every      *)
(* setting as they were, in the async and in the threaded client.          *)
(***************************************************************************)
C9_FailedCycleKeepsSettings ==
    [][FailedNetworkStep => settings' = settings]_vars

\* a cycle has failed after an earlier one installed rules, which are kept
C9_Witness ==
    /\ update_pc \in {"wait", "clear"} /\ cycles = 2
    /\ update_response.status = "unreachable"
    /\ "s1" \in tracked_settings
    /\ settings["s1"].last_ruleset = 1 /\ settings["s1"].server_default_value = 1

(***************************************************************************)
(* C10, as stated: no call of the application (set_as_main, reload, get)   *)
(* raises the failure of an update cycle.                                   *)
(***************************************************************************)
C10_NoCallRaisesUpdateFailure ==
    app_call \in {"set_as_main", "reload", "get"} => app_result # HTTPError

(***************************************************************************)
(* C10, amended: the failure of an update cycle is raised into no call of  *)
(* the threaded client and into no Setting.get; it is raised by reload of  *)
(* the async client (and by its set_as_main, which calls reload), which    *)
(* waits on the _update_error future the failed cycle completed.           *)
(***************************************************************************)
C10_OnlyAsyncReloadRaisesUpdateFailure ==
    /\ (kind = "thread" /\ app_call \in {"set_as_main", "reload"}) =>
          ~IsRaised(app_result)
    /\ app_call = "get" => ~IsRaised(app_result)
    /\ app_result = HTTPError =>
          /\ kind = "async" /\ app_call \in {"set_as_main", "reload"}
          /\ update_error = Failed(HTTPError)

\* set_as_main of the async client has closed the client and raised the
\* failure of the first cycle
C10_Witness ==
    /\ kind = "async" /\ app_call = "set_as_main" /\ app_pc = "closed"
    /\ app_result = HTTPError /\ cycles = 1

\* close / aclose was called, by the application or by a failing set_as_main
CloseRequested ==
    app_pc \in {"close_update", "close_declaration", "close_set",
                "close_join_update", "close_join_declaration", "closed"}

\* the update loop is in a cycle, or between two cycles
UpdateLoopRunning == update_pc \in {"start", "query", "clear", "wait"}

(***************************************************************************)
(* C11: once started, and until the client is closed, the update loop is   *)
(* running whatever the number of cycles that have failed: no failure of a *)
(* cycle, reported to a waiting reload or not, ends the loop.              *)
(***************************************************************************)
C11_FailedCyclesKeepLoopRunning ==
    (UpdateLoopStarted /\ ~CloseRequested) => UpdateLoopRunning

\* reload has set the manual trigger and waits for the update event
ReloadWaiting == app_pc = "reload_wait" /\ ~update_event

\* the update loop waits for the manual trigger, which is clear: only the
\* update interval ends the wait
WaitsForInterval == update_pc = "wait" /\ ~manual_update

(***************************************************************************)
(* C12: the manual trigger of a reload is never lost, in the async and in  *)
(* the threaded client: while reload waits for the update event, the       *)
(* update loop is never left waiting with the trigger clear, where only    *)
(* the update interval would start the cycle reload waits for.             *)
(***************************************************************************)
C12_ReloadTriggerNeverLost == ~(ReloadWaiting /\ WaitsForInterval)

\* reload (called by the application or by set_as_main) returns normally
ReloadReturnsNormally ==
    app_pc = "reload_wait" /\ app_pc' = "main" /\ app_result' = Returned

\* a query that named the setting was answered and the answer applied to it
\* (rules installed), or answered with "not modified"
UpToDate(name) ==
    \/ settings[name].last_ruleset # 0
    \/ /\ kind = "async" /\ name \in queried
       /\ update_response # Null /\ update_response.status = "not_modified"

(***************************************************************************)
(* C13: when reload returns normally, every setting that was registered    *)
(* before the call and whose declaration succeeded has been named in an    *)
(* update query sent after its declaration, and the response to that query *)
(* has been applied to it.                                                 *)
(***************************************************************************)
C13_ReloadReturnsUpToDate ==
    [][ReloadReturnsNormally =>
          \A name \in reload_settings \cap tracked_settings : UpToDate(name)]_vars

\* close has set the manual trigger and waits for the update thread to end
CloseWaiting == app_pc = "close_join_update" /\ update_pc # "ended"

(***************************************************************************)
(* C14: the wake-up that shutdown sends to the update loop is never lost:  *)
(* while close waits for the update loop to end, the loop is never left    *)
(* waiting with the trigger clear, where only the update interval would    *)
(* let it end; shutdown of the async client cancels the tasks and waits    *)
(* for no trigger.                                                         *)
(***************************************************************************)
C14_ShutdownWakeUpNeverLost == ~(CloseWaiting /\ WaitsForInterval)

\* close / aclose raised nothing
CloseRaisesNothing == app_call \in {"close", "aclose"} => ~IsRaised(app_result)

\* shutdown was requested and neither loop runs (any more)
LoopsStopped ==
    /\ CloseRequested
    /\ update_pc \in {"none", "ended", "cancelled", "dead"}
    /\ declaration_pc \in {"none", "ended", "cancelled"}

(***************************************************************************)
(* C15: shutdown is idempotent: close / aclose raises nothing, be it the   *)
(* first call or a later one, on a client whose loops run, were never      *)
(* started or have ended; and once the loops are stopped a further call    *)
(* leaves them, and what the client tracks, as they are.                   *)
(***************************************************************************)
C15_ShutdownIsIdempotent ==
    /\ []CloseRaisesNothing
    /\ [][LoopsStopped => UNCHANGED <<update_pc, declaration_pc, tracked_settings,
                                      keep_going>>]_vars

\* the declaration loop of the client runs: it was started, and shutdown was
\* not requested
DeclarationRunning ==
    declaration_pc \in {"get", "post"} /\ keep_going /\ ~CloseRequested

\* the setting is on the declaration queue of the client
Queued(name) == name \in Range(undeclared)

\* each setting is on the queue, or taken by the loop, at most once
QueuedOnce ==
    /\ \A i, j \in DOMAIN undeclared : undeclared[i] = undeclared[j] => i = j
    /\ ~Queued(declaring)
    /\ (declaration_pc = "post") <=> (declaring # None)
    /\ unfinished_tasks = Len(undeclared) + (IF declaring # None THEN 1 ELSE 0)

\* a setting that has left the queue of the client is never put on it again
NeverQueuedAgain ==
    \A name \in DOMAIN settings :
        (Main = "client" /\ ~Queued(name)) => ~Queued(name)'

\* the loop takes the head of the queue and submits it, and nothing else
TakesHead ==
    (declaring = None /\ declaring' # None) =>
        /\ undeclared # <<>> /\ declaring' = Head(undeclared)
        /\ undeclared' = Tail(undeclared)

\* the response to a declaration, a failure included, marks the task of the
\* queue done, leaves the queue as it is and takes the loop back to the queue
ResponseMarksDone ==
    (declaration_pc = "post" /\ declaration_pc' = "get") =>
        /\ unfinished_tasks' = unfinished_tasks - 1
        /\ undeclared' = undeclared
        /\ tracked_settings' \subseteq tracked_settings \cup {declaring}

(***************************************************************************)
(* C19: every setting put on the declaration queue of a client is          *)
(* submitted once: the loop takes one setting at a time off the head of    *)
(* the queue, no setting is on the queue twice nor put on it again after   *)
(* it was taken; a submission that fails marks its task done and leaves    *)
(* the loop running; and while the client runs the queue drains: whenever  *)
(* it has unfinished tasks, it later has none (or the client is shut       *)
(* down).                                                                  *)
(***************************************************************************)
C19_EachSettingDeclaredOnce ==
    /\ []QueuedOnce
    /\ [][NeverQueuedAgain /\ TakesHead /\ ResponseMarksDone]_vars
    /\ (DeclarationRunning /\ unfinished_tasks > 0)
          ~> (unfinished_tasks = 0 \/ ~DeclarationRunning)

\* the declaration of s1, queued first, failed, s2 was declared after it, and
\* the queue of the running client is drained
C19_Witness ==
    /\ temp_undeclared = {"s1"} /\ DOMAIN settings = {"s1", "s2"}
    /\ tracked_settings = {"s2"}
    /\ DeclarationRunning /\ unfinished_tasks = 0 /\ undeclared = <<>>

(***************************************************************************)
(* SpecMain: the main slot, the placeholder and two clients A and B of one *)
(* kind.  set_as_main is taken up to the start of the loops; the           *)
(* declaration loop of a client takes a setting and handles the response;  *)
(* an update cycle of a client is one step.                                *)
(***************************************************************************)
MaxHandovers == 3

Clients == {"A", "B"}

\* Queue.empty() as it would be did it not look at the queue
empty_IgnoreQueue(queue) == TRUE

\* previous_main._undeclared.empty()
empty(queue) == queue = <<>>

\* the comparison of the context features as it would be on sets
same_contexts_AsSets(mine, previous) == Range(mine) = Range(previous)

\* not (self._context_features != previous_main._context_features), on
\* OrderedSets: the same members in the same order
same_contexts(mine, previous) == mine = previous

\* the tracked settings as they would be were none taken from the previous main
inherit_Nothing(mine, previous) == mine

\* lines 247-250: the settings of the previous main are tracked as well
inherit(mine, previous) == mine \cup previous

\* add_settings as it would be did it drop the settings
add_settings_Dropped(queue, order) == queue

\* add_settings: put_nowait for each setting
add_settings(queue, order) == queue \o order

\* V1APIClient._set_as_main of client c, the placeholder's set iterated in the
\* given order: the clients and the main slot after it, and what it returned
\* or raised
set_as_main_of(c, order) ==
    IF Main = "temp"
    THEN [clients |-> [clients EXCEPT
                          ![c].undeclared = add_settings(@, order)],
          Main |-> c, result |-> Returned]
    ELSE IF ~empty(clients[Main].undeclared)
    THEN [clients |-> clients, Main |-> Main, result |-> RuntimeError]
    ELSE IF ~same_contexts(clients[c].context_features,
                           clients[Main].context_features)
    THEN [clients |-> clients, Main |-> Main, result |-> RuntimeError]
    ELSE [clients |-> [clients EXCEPT
                          ![c].tracked_settings =
                              inherit(@, clients[Main].tracked_settings)],
          Main |-> c, result |-> Returned]

NewClient(features, options) ==
    [state |-> "new", undeclared |-> <<>>, declaring |-> None,
     tracked_settings |-> {}, context_features |-> features,
     tracked_context_options |-> options]

\* track_contexts was called, or was not
ContextOptions == {EmptyBranch, [f \in {"a"} |-> TRACK_ALL]}

MainInit ==
    /\ TreeUnused /\ SettingUnused /\ LoopsUnused
    /\ kind \in {"async", "thread"}
    /\ Main = "temp" /\ temp_undeclared = {}
    /\ settings = EmptyBranch
    /\ \E fa \in {<<"a", "b">>, <<"a">>},
          fb \in {<<"a", "b">>, <<"b", "a">>, <<"a">>},
          options \in ContextOptions :
          clients = [c \in Clients |->
                        IF c = "A" THEN NewClient(fa, EmptyBranch)
                        ELSE NewClient(fb, options)]
    /\ handover = Null
    /\ last_update = Null
    /\ track_call = Null /\ patch_call = Null

loopVars == <<queueVars, clientVars, declarationVars, updateVars, appVars>>
besides == <<treeVars, settingVars, getVars, updVars, loopVars>>

\* Setting.__init__: the new setting registers with whoever is main
RegisterSetting ==
    /\ \E name \in Range(SettingNames) \ DOMAIN settings :
          /\ settings' = [n \in DOMAIN settings \cup {name} |->
                             IF n = name THEN NewSetting ELSE settings[n]]
          /\ IF Main = "temp"
             THEN /\ temp_undeclared' = temp_undeclared \cup {name}
                  /\ UNCHANGED clients
             ELSE /\ clients' = [clients EXCEPT
                                    ![Main].undeclared = add_settings(@, <<name>>)]
                  /\ UNCHANGED temp_undeclared
    /\ UNCHANGED <<kind, Main, handover, last_update, track_call, patch_call>>
    /\ UNCHANGED besides

Handovers == IF handover = Null THEN 0 ELSE handover.n

\* set_as_main of a client that is not main: _set_as_main, the context
\* features of the service (which the threaded client adopts), the loops
SetAsMainOf ==
    /\ Handovers < MaxHandovers
    /\ \E c \in Clients, order \in Orders(temp_undeclared),
          answer \in {"unreachable", "same", "different"} :
          /\ clients[c].state = "new" /\ c # Main
          /\ LET out == set_as_main_of(c, order)
             IN /\ Main' = out.Main
                /\ handover' = [n |-> Handovers + 1, client |-> c,
                                previous |-> Main, result |-> out.result]
                /\ clients' =
                      IF IsRaised(out.result) THEN out.clients
                      ELSE [out.clients EXCEPT
                               ![c].state = "running",
                               ![c].context_features =
                                   IF kind = "thread" /\ answer = "different"
                                   THEN ServiceFeatures ELSE @]
    /\ UNCHANGED <<kind, temp_undeclared, settings, last_update, track_call, patch_call>>
    /\ UNCHANGED besides

\* the declaration loop of a running client takes a setting off its queue
ClientDeclareTake ==
    /\ \E c \in Clients :
          /\ clients[c].state = "running"
          /\ clients[c].declaring = None
          /\ clients[c].undeclared # <<>>
          /\ clients' = [clients EXCEPT
                            ![c].declaring = Head(clients[c].undeclared),
                            ![c].undeclared = Tail(@)]
    /\ UNCHANGED <<mainVars, settings, handover, last_update, track_call, patch_call>>
    /\ UNCHANGED besides

\* the declaration is answered or fails: _handle_declaration_response
ClientDeclareResponse ==
    /\ \E c \in Clients, outcome \in DeclarationOutcomes :
          /\ clients[c].declaring # None
          /\ clients[c].state = "running"
          /\ clients' = [clients EXCEPT
                            ![c].declaring = None,
                            ![c].tracked_settings =
                                IF IsTracked(outcome)
                                THEN @ \cup {clients[c].declaring} ELSE @]
          /\ settings' = IF outcome = "outdated"
                         THEN [settings EXCEPT
                                  ![clients[c].declaring].server_default_value =
                                      DeclaredDefault]
                         ELSE settings
          /\ declaration_log' =
                Logged(declaration_log, clients[c].declaring, outcome)
    /\ UNCHANGED <<mainVars, handover, last_update, track_call, patch_call>>
    /\ UNCHANGED <<treeVars, settingVars, getVars, updVars, queueVars, clientVars,
                   declaration_pc, declaring, startup_backlog, updateVars, appVars>>

\* close / aclose: the loops are stopped.  aclose cancels a declaration that is
\* in flight; close waits for the declaration thread, which ends after the
\* declaration it is at
ClientClose ==
    /\ \E c \in Clients :
          /\ clients[c].state = "running"
          /\ kind = "thread" => clients[c].declaring = None
          /\ clients' = [clients EXCEPT ![c].state = "closed",
                                        ![c].declaring = None]
    /\ UNCHANGED <<mainVars, settings, handover, last_update, track_call, patch_call>>
    /\ UNCHANGED besides

Version == IF last_update = Null THEN 0 ELSE last_update.version

\* an update cycle of a running client, with a reply for each setting it tracks
ClientUpdate ==
    /\ Version < MaxCycles
    /\ \E c \in Clients :
          /\ clients[c].state = "running"
          /\ last_update' = [client |-> c, version |-> Version + 1,
                             names |-> clients[c].tracked_settings]
          /\ settings' = [n \in DOMAIN settings |->
                             IF n \in clients[c].tracked_settings
                             THEN [last_ruleset |-> Version + 1,
                                   server_default_value |-> Version + 1]
                             ELSE settings[n]]
    /\ UNCHANGED <<mainVars, clients, handover, track_call, patch_call>>
    /\ UNCHANGED besides

MainNext ==
    \/ RegisterSetting \/ SetAsMainOf
    \/ ClientDeclareTake \/ ClientDeclareResponse
    \/ ClientClose \/ ClientUpdate

SpecMain == MainInit /\ [][MainNext]_vars

\* a call of set_as_main ends in this step
IsHandover == handover' # handover

Occurrences(name, queue) == Cardinality({i \in DOMAIN queue : queue[i] = name})

(***************************************************************************)
(* C5: when the main client is a real client whose declaration queue still *)
(* holds a setting (one created after it was closed, say), set_as_main of  *)
(* another client raises RuntimeError, the main slot stays as it was and   *)
(* the other client's tracked settings and queue are as before.            *)
(***************************************************************************)
C5_HandoverRefusedWhilePending ==
    [][(IsHandover /\ Main \in Clients /\ Len(clients[Main].undeclared) > 0) =>
          /\ handover'.result = RuntimeError
          /\ Main' = Main
          /\ clients'[handover'.client].tracked_settings =
                clients[handover'.client].tracked_settings
          /\ clients'[handover'.client].undeclared =
                clients[handover'.client].undeclared
      ]_vars

\* A was closed, a setting was created, and B's set_as_main raised
C5_Witness ==
    /\ handover # Null /\ handover.result = RuntimeError
    /\ handover.client = "B" /\ handover.previous = "A" /\ Main = "A"
    /\ clients["A"].state = "closed" /\ Len(clients["A"].undeclared) > 0
    /\ clients["A"].context_features = clients["B"].context_features
    /\ clients["B"].state = "new"

(***************************************************************************)
(* C6: when set_as_main of B succeeds while a real client A is main, every *)
(* setting A tracks at that moment is tracked by B after it and none is    *)
(* put on B's queue, B is the main client, and differing tracked context   *)
(* options do not make it fail (it succeeds whenever A's queue is empty    *)
(* and the context features are the same); an update cycle of B updates    *)
(* every setting B tracks, those taken from A included.                    *)
(***************************************************************************)
C6_HandoverInheritsTracked ==
    [][/\ (IsHandover /\ Main \in Clients /\ handover'.result = Returned) =>
             /\ Main' = handover'.client
             /\ clients[Main].tracked_settings \subseteq
                   clients'[Main'].tracked_settings
             /\ clients'[Main'].undeclared = clients[Main'].undeclared
             /\ clients'[Main'].declaring = clients[Main'].declaring
       /\ ( /\ IsHandover /\ Main \in Clients
            /\ Len(clients[Main].undeclared) = 0
            /\ clients[handover'.client].context_features =
                  clients[Main].context_features ) =>
             handover'.result = Returned
       /\ last_update' # last_update =>
             \A n \in clients[last_update'.client].tracked_settings :
                 settings'[n].last_ruleset = last_update'.version
      ]_vars

\* B took over from A with other context options, tracks the setting declared
\* under A without having declared it, and has updated it
C6_Witness ==
    /\ handover # Null /\ handover.result = Returned
    /\ handover.client = "B" /\ handover.previous = "A" /\ Main = "B"
    /\ clients["A"].tracked_context_options # clients["B"].tracked_context_options
    /\ clients["A"].tracked_settings = {"s1"}
    /\ clients["B"].tracked_settings = {"s1"}
    /\ clients["B"].undeclared = <<>> /\ clients["B"].declaring = None
    /\ last_update # Null /\ last_update.client = "B"
    /\ settings["s1"].last_ruleset = last_update.version

(***************************************************************************)
(* C7: set_as_main of B while a real client A is main raises RuntimeError  *)
(* whenever B's context features differ from A's as an ordered list, A's   *)
(* queue being empty or not; the main slot stays A and B takes none of A's *)
(* tracked settings.                                                       *)
(***************************************************************************)
C7_HandoverRefusedOnOtherFeatures ==
    [][( /\ IsHandover /\ Main \in Clients
         /\ clients[handover'.client].context_features #
               clients[Main].context_features ) =>
          /\ handover'.result = RuntimeError
          /\ Main' = Main
          /\ clients' = clients
      ]_vars

\* A's queue is empty, B has A's features in another order, and B's
\* set_as_main raised
C7_Witness ==
    /\ handover # Null /\ handover.result = RuntimeError
    /\ handover.client = "B" /\ handover.previous = "A" /\ Main = "A"
    /\ clients["A"].undeclared = <<>> /\ clients["A"].declaring = None
    /\ clients["A"].tracked_settings # {}
    /\ clients["A"].context_features = <<"a", "b">>
    /\ clients["B"].context_features = <<"b", "a">>
    /\ clients["B"].tracked_settings = {}

StillToDeclare(c) ==
    Range(clients[c].undeclared) \cup
        (IF clients[c].declaring = None THEN {} ELSE {clients[c].declaring})

\* the latest declaration of the setting was answered, and logged as one of these
AnsweredAs(name, logs) ==
    name \in DOMAIN declaration_log /\ declaration_log[name] \in logs

\* the settings of every client's table and of the latest update query were
\* declared with an answer logged as one of these
TrackedOnly(logs) ==
    /\ \A c \in Clients : \A name \in clients[c].tracked_settings :
           AnsweredAs(name, logs)
    /\ last_update # Null => \A name \in last_update.names : AnsweredAs(name, logs)

\* an update query names no setting its client has still to declare
QueriesNoPending ==
    last_update' # last_update =>
        /\ last_update'.names = clients[last_update'.client].tracked_settings
        /\ last_update'.names \cap StillToDeclare(last_update'.client) = {}

(***************************************************************************)
(* C20, as the code has it: the tracked settings of a client, and so the   *)
(* names of every update query, are settings whose declaration was         *)
(* submitted (by the client or by the main client it took them from) and   *)
(* was answered with a JSON body and a status that is a success or 409     *)
(* Conflict; a setting whose declaration failed to be sent, was answered   *)
(* with another error status or with a body that is not JSON, or is still  *)
(* pending, is named in no update query.                                   *)
(***************************************************************************)
C20_TrackedWereDeclaredOrConflicted ==
    /\ []TrackedOnly({"declared", "conflict"})
    /\ [][QueriesNoPending]_vars

\* a client that took over from another queries a setting its predecessor
\* declared with a conflict, and not the setting whose declaration failed or
\* that it has still to declare
C20_Witness ==
    /\ handover # Null /\ handover.previous \in Clients
    /\ ~IsRaised(handover.result)
    /\ last_update # Null /\ last_update.client = handover.client
    /\ \E name \in last_update.names : AnsweredAs(name, {"conflict"})
    /\ \E name \in DOMAIN settings \ last_update.names :
          AnsweredAs(name, {"failed"}) \/ name \in StillToDeclare(handover.client)

(***************************************************************************)
(* C20, as the specification has it: the tracked settings, and the names   *)
(* of every update query, are settings whose declaration received an       *)
(* outcome that is not an error.                                           *)
(***************************************************************************)
C20_TrackedReceivedNoError == TrackedOnly({"declared"})

(***************************************************************************)
(* SpecTrack: V1APIClient.track_contexts, called on two new clients.  A    *)
(* keyword argument is a pair <<feature, value>>, the value being a str    *)
(* (TRACK_ALL among them) or a collection of strs; an option of            *)
(* _tracked_context_options is TRACK_ALL or a SortedList, which keeps      *)
(* what it is given in order, more than once if given more than once.      *)
(***************************************************************************)
MaxTracks == 2

Collection(items) == [items |-> items]
SortedList(items) == [sorted |-> items]

\* the order of the strs
Rank(v) == CASE v = "*" -> 1 [] v = "x" -> 2 [] v = "y" -> 3

\* SortedList.add
SortedAdd(items, v) ==
    LET before == Cardinality({i \in DOMAIN items : Rank(items[i]) <= Rank(v)})
    IN SubSeq(items, 1, before) \o <<v>> \o SubSeq(items, before + 1, Len(items))

\* SortedList(v), SortedList.update(v)
RECURSIVE SortedUpdate(_, _)
SortedUpdate(items, v) ==
    IF v = <<>> THEN items
    ELSE SortedUpdate(SortedAdd(items, Head(v)), Tail(v))

\* value == TRACK_ALL: a str equals it when it is '*', a list or a tuple never
\* does, and a SortedList does when it holds '*' and nothing else (it compares
\* as a sequence, and a str is a sequence of its characters)
EqualsTrackAll(value) ==
    \/ value = TRACK_ALL
    \/ DOMAIN value = {"sorted"} /\ value.sorted = <<"*">>

\* lines 93-99 as they would be without the test for TRACK_ALL: the values are
\* tracked in place of it
track_value_Override(options, k, v) ==
    LET items == IF DOMAIN v = {"str"} THEN <<v.str>> ELSE v.items
    IN [options |->
           [f \in DOMAIN options \cup {k} |->
               IF f # k THEN options[f]
               ELSE IF k \in DOMAIN options /\ ~EqualsTrackAll(options[k])
               THEN SortedList(SortedUpdate(options[k].sorted, items))
               ELSE SortedList(SortedUpdate(<<>>, items))],
        result |-> Unset]

\* lines 91-99: specific values
track_value(options, k, v) ==
    LET items == IF DOMAIN v = {"str"} THEN <<v.str>> ELSE v.items
    IN IF k \in DOMAIN options /\ EqualsTrackAll(options[k])
       THEN [options |-> options, result |-> RuntimeError]
       ELSE [options |->
                [f \in DOMAIN options \cup {k} |->
                    IF f # k THEN options[f]
                    ELSE IF k \in DOMAIN options
                    THEN SortedList(SortedUpdate(options[k].sorted, items))
                    ELSE SortedList(SortedUpdate(<<>>, items))],
             result |-> Unset]

\* lines 86-90: TRACK_ALL
track_all(options, k) ==
    IF k \in DOMAIN options
    THEN [options |-> options, result |-> RuntimeError]
    ELSE [options |-> [f \in DOMAIN options \cup {k} |->
                          IF f = k THEN TRACK_ALL ELSE options[f]],
          result |-> Unset]

\* the loop "for k, v in context_values.items()", from the i-th keyword on
RECURSIVE track_from(_, _, _)
track_from(options, context_values, i) ==
    IF i > Len(context_values) THEN [options |-> options, result |-> Returned]
    ELSE LET k == context_values[i][1]
             v == context_values[i][2]
             out == IF v = TRACK_ALL THEN track_all(options, k)
                    ELSE track_value(options, k, v)
         IN IF IsRaised(out.result) THEN out
            ELSE track_from(out.options, context_values, i + 1)

\* a feature not in _context_features is warned about and tracked all the same
track_contexts(options, context_values) == track_from(options, context_values, 1)

\* the features the calls name: a feature of the client and one that is not
TrackFeatures == {"a", "d"}
TrackValues ==
    {TRACK_ALL, Str("x"), Collection(<<"y">>), Collection(<<"*">>)}

\* the keyword arguments of a call: one or two features, each with a value
TrackKwargs ==
    {<<<<k, v>>>> : k \in TrackFeatures, v \in TrackValues} \cup
    {kw \in {<<<<k1, v1>>, <<k2, v2>>>> :
                k1 \in TrackFeatures, k2 \in TrackFeatures,
                v1 \in TrackValues, v2 \in TrackValues} :
        kw[1][1] # kw[2][1]}

Tracks == IF track_call = Null THEN 0 ELSE track_call.n

TrackInit ==
    /\ TreeUnused /\ SettingUnused /\ LoopsUnused
    /\ kind \in {"async", "thread"}
    /\ Main = "temp" /\ temp_undeclared = {}
    /\ settings = EmptyBranch
    /\ clients = [c \in Clients |-> NewClient(<<"a", "b">>, EmptyBranch)]
    /\ handover = Null
    /\ last_update = Null
    /\ track_call = Null /\ patch_call = Null

TrackContexts ==
    /\ Tracks < MaxTracks
    /\ \E c \in Clients, context_values \in TrackKwargs :
          LET out == track_contexts(clients[c].tracked_context_options,
                                    context_values)
          IN /\ clients' = [clients EXCEPT
                               ![c].tracked_context_options = out.options]
             /\ track_call' = [n |-> Tracks + 1, client |-> c,
                               kwargs |-> context_values, result |-> out.result]
    /\ UNCHANGED <<mainVars, settings, handover, last_update, patch_call>>
    /\ UNCHANGED besides

TrackNext == TrackContexts

SpecTrack == TrackInit /\ [][TrackNext]_vars

\* an option is the marker, or a sorted list of values
IsOption(option) ==
    \/ option = TRACK_ALL
    \/ /\ DOMAIN option = {"sorted"}
       /\ \A i \in DOMAIN option.sorted : option.sorted[i] \in {"*", "x", "y"}
       /\ \A i, j \in DOMAIN option.sorted :
             i < j => Rank(option.sorted[i]) <= Rank(option.sorted[j])

OptionsAreOneOrTheOther ==
    \A c \in Clients :
        \A k \in DOMAIN clients[c].tracked_context_options :
            IsOption(clients[c].tracked_context_options[k])

\* the keyword asks for TRACK_ALL where values are tracked, or for values where
\* TRACK_ALL is set
Mixes(options, k, v) ==
    /\ k \in DOMAIN options
    /\ \/ v = TRACK_ALL /\ options[k] # TRACK_ALL
       \/ v # TRACK_ALL /\ options[k] = TRACK_ALL

\* a call that mixes the two for a feature raises RuntimeError and leaves the
\* option of the feature as it was
MixingRaises ==
    track_call' # track_call =>
        LET c == track_call'.client
            before == clients[c].tracked_context_options
            after == clients'[c].tracked_context_options
        IN \A i \in DOMAIN track_call'.kwargs :
              LET k == track_call'.kwargs[i][1]
                  v == track_call'.kwargs[i][2]
              IN Mixes(before, k, v) =>
                    /\ track_call'.result = RuntimeError
                    /\ after[k] = before[k]

\* an option stays of its kind: the marker stays, and values never become it
OptionsKeepTheirKind ==
    \A c \in Clients :
        \A k \in DOMAIN clients[c].tracked_context_options :
            /\ k \in DOMAIN clients'[c].tracked_context_options
            /\ clients[c].tracked_context_options[k] = TRACK_ALL <=>
                  clients'[c].tracked_context_options[k] = TRACK_ALL

(***************************************************************************)
(* C29: after any calls of track_contexts the option of each feature is    *)
(* TRACK_ALL or a list of values and stays of its kind; a call that asks   *)
(* for values for a feature set to TRACK_ALL, or for TRACK_ALL for a       *)
(* feature that tracks values, raises RuntimeError and leaves the option   *)
(* of that feature as it was.                                              *)
(***************************************************************************)
C29_TrackAllAndValuesNeverMix ==
    /\ []OptionsAreOneOrTheOther
    /\ [][MixingRaises /\ OptionsKeepTheirKind]_vars

\* track_contexts(d='x', a=TRACK_ALL) raised RuntimeError for a, which tracks
\* 'x' as before, after d was taken in
C29_Witness ==
    /\ track_call # Null /\ track_call.result = RuntimeError
    /\ track_call.kwargs = <<<<"d", Str("x")>>, <<"a", TRACK_ALL>>>>
    /\ clients[track_call.client].tracked_context_options =
          [k \in {"a", "d"} |-> SortedList(<<"x">>)]

\* set_as_main of a client returned
IsSetAsMain ==
    /\ handover' # handover
    /\ ~IsRaised(handover'.result)

FeaturesUnchanged ==
    \A c \in Clients :
        clients'[c].context_features = clients[c].context_features

(***************************************************************************)
(* C30: the context features of a client are fixed for its lifetime:      *)
(* set_as_main against a service whose context features differ from the   *)
(* client's leaves the client's own as they were (the mismatch is logged   *)
(* as a warning), for the async client and for the threaded one.           *)
(***************************************************************************)
C30_ContextFeaturesAreFixed == [][FeaturesUnchanged]_vars

\* the same of the async client alone
AsyncContextFeaturesAreFixed == [][kind = "async" => FeaturesUnchanged]_vars

\* no step but a set_as_main that returned changes them
OnlySetAsMainChangesFeatures == [][IsSetAsMain \/ FeaturesUnchanged]_vars

(***************************************************************************)
(* SpecUpdates: the update loop of a client after set_as_main returned,    *)
(* while the application drops settings.  _tracked_settings is a           *)
(* WeakValueDictionary: a setting the application no longer refers to      *)
(* leaves it, also between the query of a cycle and its reply.             *)
(***************************************************************************)
\* set_as_main has returned: the settings are declared and the first reply
\* is applied
Started ==
    /\ Main = "client" /\ temp_undeclared = {}
    /\ settings = [n \in Range(SettingNames) |->
                      [last_ruleset |-> 1, server_default_value |-> 1]]
    /\ undeclared = <<>> /\ unfinished_tasks = 0
    /\ tracked_settings = Range(SettingNames)
    /\ update_event = TRUE /\ manual_update = FALSE /\ keep_going = TRUE
    /\ update_error = Null
    /\ etag = IF kind = "async" THEN 1 ELSE 0
    /\ last_cache_time = IF kind = "thread" THEN 1 ELSE 0
    /\ declaration_pc = "get" /\ declaring = None
    /\ update_pc = "wait" /\ queried = Range(SettingNames)
    /\ cycles = 1
    /\ app_pc = "main"

UpdatesInit ==
    /\ TreeUnused /\ SettingUnused /\ HandoverUnused
    /\ kind \in {"async", "thread"}
    /\ Started
    /\ client_context_features = <<"a">>
    /\ startup_backlog = {}
    /\ declaration_log = [n \in Range(SettingNames) |-> "declared"]
    /\ update_response =
          QueryResponse("ok", 1, [i \in DOMAIN SettingNames |->
                                     Entry(SettingNames[i], FALSE)])
    /\ app_call = "set_as_main" /\ app_result = Returned /\ reloads = 0
    /\ reload_settings = {}

\* the state of the client after set_as_main, of each kind
StartedAsync == kind = "async" /\ UpdatesInit
StartedThread == kind = "thread" /\ UpdatesInit

\* the application drops its last reference to a setting
DropSetting ==
    /\ app_pc = "main"
    /\ \E name \in tracked_settings :
          /\ tracked_settings' = tracked_settings \ {name}
          /\ settings' = [n \in DOMAIN settings \ {name} |-> settings[n]]
    /\ UNCHANGED <<client_context_features, update_event, manual_update,
                   keep_going, update_error, etag, last_cache_time>>
    /\ UNCHANGED <<mainVars, queueVars, declarationVars, updateVars, appVars>>
    /\ UNCHANGED elsewhere

UpdatesNext ==
    \/ AsyncUpdateQuery \/ AsyncUpdateReply
    \/ ThreadUpdateQuery \/ ThreadUpdateReply
    \/ ThreadUpdateClear \/ ThreadUpdateWake
    \/ DropSetting

SpecUpdates == UpdatesInit /\ [][UpdatesNext]_vars

\* a reply with rules for the settings of the query was handled in this step
IsReplyApplied ==
    /\ update_pc = "query" /\ update_pc' # "query"
    /\ update_response'.status = "ok"

EntryNames(reply) == {reply.entries[i].name : i \in DOMAIN reply.entries}

WellFormedReply(reply) == \A i \in DOMAIN reply.entries : ~reply.entries[i].malformed

\* every setting of the reply that the client tracks has the rules of the reply
TrackedAreUpdated ==
    \A name \in EntryNames(update_response') \cap tracked_settings :
        settings'[name].last_ruleset = update_response'.version

(***************************************************************************)
(* C31: applying a reply skips a setting name that is not in the table of  *)
(* tracked settings (its setting was collected after the query was built)  *)
(* and still updates every other setting the reply names.                  *)
(***************************************************************************)
C31_AbsentSettingIsSkipped ==
    [][IsReplyApplied /\ WellFormedReply(update_response') => TrackedAreUpdated]_vars

\* the same, for the replies whose names are all tracked
AllTrackedAreUpdated ==
    [][IsReplyApplied /\ WellFormedReply(update_response')
         /\ EntryNames(update_response') \subseteq tracked_settings
       => TrackedAreUpdated]_vars

(***************************************************************************)
(* SpecStub: StubClient.patch, called on the setting of SpecSetting        *)
(* between its gets and update cycles.                                     *)
(***************************************************************************)
\* a stub rule: its match_conditions in their order (None is the wildcard)
\* and its value
StubRule(match_conditions, value) ==
    [match_conditions |-> match_conditions, value |-> value]

\* the value argument of patch: a plain value, rules of the same features,
\* rules of different features
PatchValues ==
    {Leaf(10),
     <<StubRule(<<<<"a", "x">>>>, 0), StubRule(<<<<"a", "y">>>>, 1)>>,
     <<StubRule(<<<<"a", "x">>>>, 0), StubRule(<<<<"b", "y">>>>, 1)>>}

IsRuleCollection(value) == DOMAIN value # {"leaf"}

\* tuple(rule.match_conditions.keys())
StubKeys(rule) == [i \in DOMAIN rule.match_conditions |-> rule.match_conditions[i][1]]

\* groupby: whether a rule has other keys than the rule before it
SecondGroup(value) ==
    \E i \in DOMAIN value : i > 1 /\ StubKeys(value[i]) # StubKeys(value[i - 1])

\* the call setting.update(*arguments): Setting.update(self, client, rules)
\* binds two arguments, and a call with another number of them raises
\* TypeError before the body runs
Setting_update_call(arguments) ==
    IF Len(arguments) # 2 THEN TypeError ELSE Returned

\* patch: the _Patch that records the rule set, the test of the rules'
\* features, and the call of setting.update with (self, first, root) or
\* (self, (), value); the _Patch is returned if nothing raised
patch(previous, value) ==
    LET ret == [setting_previous |-> previous]
    IN IF IsRuleCollection(value)
       THEN IF SecondGroup(value) THEN RuntimeError
            ELSE LET first == StubKeys(value[1])
                     updated == Setting_update_call(<<"self", first, "root">>)
                 IN IF IsRaised(updated) THEN updated ELSE ret
       ELSE LET updated == Setting_update_call(<<"self", <<>>, value>>)
            IN IF IsRaised(updated) THEN updated ELSE ret

\* the application calls patch on the setting, outside of a cycle
StubPatch ==
    /\ upd_pc = "idle"
    /\ \E value \in PatchValues :
          patch_call' = [value |-> value, previous |-> last_ruleset,
                         result |-> patch(last_ruleset, value)]
    /\ UNCHANGED <<treeVars, settingVars, getVars, updVars>>
    /\ UNCHANGED <<mainVars, settings, queueVars, clientVars, declarationVars,
                   updateVars, appVars>>
    /\ UNCHANGED <<clients, handover, last_update, track_call>>

StubNext == SettingNext \/ StubPatch

SpecStub == SettingInit /\ [][StubNext]_vars

\* the rules of the call have the same features, or the value is plain
SameFeatures(value) == ~IsRuleCollection(value) \/ ~SecondGroup(value)

(***************************************************************************)
(* C32: a patch of the stub client is a context manager that restores, on  *)
(* exit, the rule set the setting had when the patch was made: patch       *)
(* returns the _Patch holding that rule set, for a plain value and for     *)
(* rules of the same features, so that leaving each level of nested        *)
(* patches brings back what get returned before the level was entered.     *)
(***************************************************************************)
C32_PatchRestoresOnExit ==
    patch_call # Null /\ SameFeatures(patch_call.value) =>
        patch_call.result = [setting_previous |-> patch_call.previous]

\* no call of patch returns: none changes the rule set
PatchNeverReturns ==
    patch_call # Null => IsRaised(patch_call.result)

\* the setting has no configurable features and the last reply applied to it
\* carried no rules: the tree installed is what collate_rules gives for none
NoRuleInstalled ==
    /\ configurable_features = <<>>
    /\ last_ruleset # Null
    /\ InstalledTree = collate_rules(<<>>, <<>>)

(***************************************************************************)
(* C33: for a setting without configurable features, after an update cycle *)
(* whose reply has no rules for it, get returns the default (the server    *)
(* default if set, else the declared default): what collation gives for no *)
(* rule is a miss for resolution and is never returned as the value.       *)
(***************************************************************************)
C33_NoRuleIsAMiss ==
    [][IsGetCall /\ NoRuleInstalled =>
         get_result' = default_or_server(server_default_value, default_value)]_vars

\* in that state get returns what collate_rules gave for no rule
NoRuleIsReturned ==
    [][IsGetCall /\ NoRuleInstalled => get_result' = collate_rules(<<>>, <<>>)]_vars

\* the cache token of the next query changes in this step
TokenAdvances == etag' # etag \/ last_cache_time' # last_cache_time

\* the response handled in this step was a reply that update() applied to the
\* end without raising
ReplyCompletelyApplied ==
    LET out == update(kind, settings, update_response', tracked_settings)
    IN out.replied /\ out.raised = Null

(***************************************************************************)
(* C34: the cache token sent with a query comes from a cycle whose reply   *)
(* was completely applied to the settings: a cycle that failed in          *)
(* transport, or got a reply and failed while applying it, does not        *)
(* advance the token.                                                      *)
(***************************************************************************)
C34_TokenFromAppliedReply == [][TokenAdvances => ReplyCompletelyApplied]_vars

\* the same of the threaded client alone
ThreadTokenFromAppliedReply ==
    [][kind = "thread" /\ TokenAdvances => ReplyCompletelyApplied]_vars

(***************************************************************************)
(* SpecLock: the setting of SpecSetting, with an application that takes    *)
(* the client's modification_lock and lets go of it.  The lock is held by  *)
(* the update loop between the arrival of a reply and the end of its swap, *)
(* and by the application otherwise.                                       *)
(***************************************************************************)
\* the application holds the lock
AppHolds == modification_lock /\ ~CollateAndSwap

\* with client.modification_lock: the application enters
AppAcquire ==
    /\ ~modification_lock
    /\ modification_lock' = TRUE
    /\ UNCHANGED <<upd_pc, upd_reply, upd_rules, upd_root, upd_n, upd_count>>
    /\ UNCHANGED <<settingVars, treeVars, getVars, programVars>>

\* the application leaves the with block
AppRelease ==
    /\ AppHolds
    /\ modification_lock' = FALSE
    /\ UNCHANGED <<upd_pc, upd_reply, upd_rules, upd_root, upd_n, upd_count>>
    /\ UNCHANGED <<settingVars, treeVars, getVars, programVars>>

LockNext == SettingNext \/ AppAcquire \/ AppRelease

SpecLock == SettingInit /\ [][LockNext]_vars

\* the application holds the lock before and after the step
HeldThroughout == AppHolds /\ AppHolds'

(***************************************************************************)
(* C35: while the application holds the client's modification_lock the     *)
(* client modifies no setting: neither the update loop nor the declaration *)
(* loop changes the rule set or the server default of the setting, so what *)
(* get returns stays the same for as long as the lock is held.             *)
(***************************************************************************)
C35_NoModificationUnderLock ==
    [][HeldThroughout =>
         /\ last_ruleset' = last_ruleset
         /\ server_default_value' = server_default_value]_vars

\* the same of the update loop alone
UpdateLoopKeepsOffUnderLock ==
    [][HeldThroughout /\ declared' = declared =>
         /\ last_ruleset' = last_ruleset
         /\ server_default_value' = server_default_value]_vars

\* the first update cycle of the setting is between the assignment of the
\* server default and the assignment of the rule set, and its rules collate
MidFirstCycle ==
    /\ upd_pc \in {"update", "collate"}
    /\ upd_count = 1
    /\ ~IsRaised(collate_rules(configurable_features, upd_rules))

\* what get returned before the cycle: no rule set, and the server default
\* the declaration left
GetBeforeCycle ==
    default_or_server(declared_server_default(Null, declared), default_value)

\* what get returns after the cycle, with the rule set and the server default
\* of its reply
GetAfterCycle(contexts) ==
    LET root == collate_rules(configurable_features, upd_rules)
        from_rules == from_rules_of([client |-> "client", root |-> 1], <<root>>,
                                    contexts, const_context_features,
                                    configurable_features)
    IN IF from_rules = no_match
       THEN default_or_server(server_default_value, default_value)
       ELSE from_rules

(***************************************************************************)
(* C36: within one update cycle the new server default and the new rule    *)
(* tree of a setting become visible to a concurrent get as a unit: a get   *)
(* during the cycle returns what it returned before the cycle or what it   *)
(* returns after it, never a result of the new server default with the old *)
(* rule tree or of the new rule tree with the old default.                 *)
(***************************************************************************)
C36_DefaultAndTreeChangeAsAUnit ==
    [][IsGetCall /\ MidFirstCycle =>
         get_result' \in {GetBeforeCycle, GetAfterCycle(get_contexts')}]_vars

\* the same of the gets outside of the swap of a cycle, after the first reply
\* was applied whole
OutsideOfTheSwapItIsAUnit ==
    [][IsGetCall /\ upd_pc \in {"idle", "query", "locked"} /\ upd_count = 1
         /\ ~IsRaised(collate_rules(configurable_features, upd_rules))
       => get_result' = GetAfterCycle(get_contexts')]_vars

\* the last set_as_main took the main slot over from a real client
TookOverFromClient ==
    /\ handover # Null
    /\ ~IsRaised(handover.result)
    /\ handover.previous \in Clients

\* set_as_main takes over from a real client in this step
IsTakeOverFromClient == IsHandover /\ TookOverFromClient'

(***************************************************************************)
(* C37: the handover from a real client A succeeds only when A has no      *)
(* declaration pending or in flight: set_as_main of B does not succeed     *)
(* while A's declaration loop has taken a setting off the queue and not    *)
(* finished declaring it, so after a successful handover A never tracks a  *)
(* setting that B does not track.                                          *)
(***************************************************************************)
C37_HandoverOnlyWhenNothingInFlight ==
    /\ [][IsTakeOverFromClient =>
            /\ clients[handover'.previous].undeclared = <<>>
            /\ clients[handover'.previous].declaring = None]_vars
    /\ [](TookOverFromClient =>
            clients[handover.previous].tracked_settings
                \subseteq clients[handover.client].tracked_settings)

\* the handover does not succeed while the queue of A holds a setting
HandoverOnlyWhenQueueIsEmpty ==
    [][IsTakeOverFromClient => clients[handover'.previous].undeclared = <<>>]_vars

\* the setting is with the placeholder, in the queue of the client, taken by
\* its declaration loop, tracked, or its latest declaration failed and was
\* logged
Accounted(name) ==
    \/ name \in temp_undeclared
    \/ name \in Range(undeclared)
    \/ declaring = name
    \/ name \in tracked_settings
    \/ name \in DOMAIN declaration_log /\ declaration_log[name] = "failed"

(***************************************************************************)
(* C38: no registered setting is silently lost: each setting registered    *)
(* with the client is in its declaration queue (or being declared), or     *)
(* tracked by it, or its declaration ended with a logged failure; shutting *)
(* the client down while a declaration is in flight does not mark the item *)
(* done and drop it.                                                       *)
(***************************************************************************)
C38_NoSettingIsLost == \A name \in DOMAIN settings : Accounted(name)

\* the same of the threaded client alone
ThreadNoSettingIsLost ==
    kind = "thread" => \A name \in DOMAIN settings : Accounted(name)

\* the same of the async client until the declaration task is cancelled
AsyncNoSettingIsLostUntilCancelled ==
    kind = "async" /\ declaration_pc # "cancelled" =>
        \A name \in DOMAIN settings : Accounted(name)

\* reload of the async client (called by the application or by set_as_main)
\* returns or raises in this step
IsAsyncReloadReturn ==
    kind = "async" /\ app_pc = "reload_wait" /\ app_pc' # "reload_wait"

\* a cycle has ended since the reload cleared the update event: the cycle the
\* reload waited for
CycleEnded == update_event

\* the last cycle ended well: its response was applied whole, or was "not
\* modified"
LastCycleSucceeded ==
    /\ update_response # Null
    /\ update_response.status \in {"ok", "not_modified"}
    /\ WellFormedReply(update_response)

(***************************************************************************)
(* C39: each reload of the async client reports the outcome of the cycle   *)
(* it waited for and nothing else: it raises only the error of a cycle     *)
(* that ended, failing, during the reload, and it returns normally when    *)
(* its own cycle succeeded, also after an earlier reload raised; the error *)
(* of a past cycle is never raised again by a later reload.                *)
(***************************************************************************)
C39_ReloadReportsItsOwnCycle ==
    [][IsAsyncReloadReturn =>
         /\ IsRaised(app_result') => CycleEnded /\ ~LastCycleSucceeded
         /\ (CycleEnded /\ LastCycleSucceeded) => app_result' = Returned]_vars

\* the same of the reloads before any cycle has failed
FirstFailureIsReportedOnce ==
    [][IsAsyncReloadReturn /\ update_error \in {Null, Pending} =>
         /\ ~IsRaised(app_result')
         /\ (CycleEnded /\ LastCycleSucceeded) => app_result' = Returned]_vars

\* a reload that raises reports a failure that a cycle recorded
ReloadRaisesARecordedFailure ==
    [][IsAsyncReloadReturn /\ IsRaised(app_result') =>
         update_error = Failed(app_result')]_vars
====
